---- MODULE Spec2Model ----
(***************************************************************************)
(* Order / payment / shipment / exchange lifecycle of the storefront.      *)
(*                                                                         *)
(* The persistent state is the relational store (orders, exchange_requests *)
(* and shiprocket_logs tables); every route handler is one action, except  *)
(* POST /api/exchanges, which is split at the await between its            *)
(* eligibility query and its insert so that concurrent requests can        *)
(* interleave.  Outcomes of external calls (carrier API, database errors)  *)
(* are inputs chosen with \E.                                              *)
(***************************************************************************)
EXTENDS Integers, Sequences, FiniteSets, Bags, TLC

(* ------------------------------------------------------------------------ *)
(* Universes and bounds                                                     *)
(* ------------------------------------------------------------------------ *)

NULL == "null"
NoTime == -1
NoId == 0

OrderIds == {"o1"}
Users == {"u1", "u2"}
RazorpayOrderIds == {"rzp_1"}
AwbCodes == {"AWB1"}

MaxLogs == 4
MaxCarrierOrders == 2
MaxExchanges == 2
MaxInflight == 2
MaxItems == 2
MaxDaysPast == 1
MaxCouriers == 2

(* one model time unit is 12 hours, so a day is 2 units *)
MS_PER_DAY == 2
EXCHANGE_WINDOW_DAYS == 30
COD_FEE == 100

PaymentMethods == {"razorpay", "cod"}

(* ------------------------------------------------------------------------ *)
(* Line items                                                               *)
(* ------------------------------------------------------------------------ *)

ProductIds == {1, 2}
Sizes == {"S", "M"}
Colors == {"red", "blue"}
Quantities == {1, 2}

Items == [product_id : ProductIds, size : Sizes, color : Colors, quantity : Quantities]

Item(p, s, c, q) == [product_id |-> p, size |-> s, color |-> c, quantity |-> q]

(* carts the checkout page can submit (never empty: handlePlaceOrder) *)
Carts == { <<Item(1, "S", "red", 2)>>,
           <<Item(1, "S", "red", 1), Item(2, "M", "blue", 1)>> }

(* ------------------------------------------------------------------------ *)
(* State                                                                    *)
(* ------------------------------------------------------------------------ *)

VARIABLES
    orders,        \* orders table: order id -> row
    exchanges,     \* exchange_requests table: sequence of rows, id = index
    logs,          \* shiprocket_logs table: bag of rows
    carrierOrders, \* carrier side: order id -> number of carrier orders created
    inflight,      \* bag of POST /api/exchanges requests between eligibility check and insert
    now,           \* wall clock, in units of 12 hours
    last,          \* the last request handled and its response
    vOrig, vReq,   \* the item lists of the exchange request under validation
    client,        \* the carrier client: cached token, its expiry, logins in flight
    productImages, \* the image list of the admin product editor
    creating       \* bag of createShipRocketOrder calls between reading the order and the carrier call

vars == <<orders, exchanges, logs, carrierOrders, inflight, now, last, vOrig, vReq,
          client, productImages, creating>>

NoRequest == [op |-> "none"]

(* ------------------------------------------------------------------------ *)
(* Checkout: createOrder as called by handleCODOrder / handleRazorpayOrder  *)
(* ------------------------------------------------------------------------ *)

(* a checkout that charges no cash-on-delivery fee and starts every order pending *)
NewOrderRow_NoCod(u, cart, method, rzp) ==
    [ user_id |-> u,
      items |-> cart,
      payment_method |-> method,
      payment_status |-> "pending",
      order_status |-> "pending",
      cod_charge |-> 0,
      razorpay_order_id |-> rzp,
      shiprocket_order_id |-> NoId,
      shiprocket_shipment_id |-> NoId,
      awb_number |-> NULL,
      shipped_at |-> NoTime,
      delivered_at |-> NoTime,
      pickup_scheduled_date |-> NoTime ]

NewOrderRow(u, cart, method, rzp) ==
    [ user_id |-> u,
      items |-> cart,
      payment_method |-> method,
      payment_status |-> "pending",
      order_status |-> IF method = "cod" THEN "confirmed" ELSE "pending",
      cod_charge |-> IF method = "cod" THEN COD_FEE ELSE 0,
      razorpay_order_id |-> rzp,
      shiprocket_order_id |-> NoId,
      shiprocket_shipment_id |-> NoId,
      awb_number |-> NULL,
      shipped_at |-> NoTime,
      delivered_at |-> NoTime,
      pickup_scheduled_date |-> NoTime ]

(* insert of a row into a table keyed by id *)
Insert(tbl, id, row) == [k \in DOMAIN tbl \cup {id} |-> IF k = id THEN row ELSE tbl[k]]

createOrder(tbl, id, row) == Insert(tbl, id, row)

handleCODOrder(o, u, cart, dbOk) ==
    /\ o \notin DOMAIN orders
    /\ orders' = IF dbOk THEN createOrder(orders, o, NewOrderRow(u, cart, "cod", NULL))
                 ELSE orders
    /\ last' = [op |-> "checkout", method |-> "cod", order |-> o, ok |-> dbOk]
    /\ UNCHANGED <<exchanges, logs, carrierOrders, inflight, now, vOrig, vReq, creating, productImages, client>>

handleRazorpayOrder(o, u, cart, rzp, dbOk) ==
    /\ o \notin DOMAIN orders
    /\ orders' = IF dbOk THEN createOrder(orders, o, NewOrderRow(u, cart, "razorpay", rzp))
                 ELSE orders
    /\ last' = [op |-> "checkout", method |-> "razorpay", order |-> o, ok |-> dbOk]
    /\ UNCHANGED <<exchanges, logs, carrierOrders, inflight, now, vOrig, vReq, creating, productImages, client>>

CheckoutOn(users, carts, dbs) ==
    \E o \in OrderIds, u \in users, cart \in carts, dbOk \in dbs :
        \/ handleCODOrder(o, u, cart, dbOk)
        \/ \E rzp \in RazorpayOrderIds : handleRazorpayOrder(o, u, cart, rzp, dbOk)

Checkout == CheckoutOn({"u1"}, {<<Item(1, "S", "red", 2)>>}, BOOLEAN)

(* ------------------------------------------------------------------------ *)
(* Carrier order service (lib/shiprocket/orderService.ts)                   *)
(*                                                                          *)
(* The service functions are operators from the database state              *)
(* db = [orders, logs, carrierOrders] and the outcomes of the external      *)
(* calls to the resulting database state, the returned value and the number *)
(* of carrier API calls made.                                               *)
(* ------------------------------------------------------------------------ *)

(* a row of shiprocket_logs; error_message: whether the column is set, as *)
(* every insert with status 'error' sets it and no other insert does       *)
LogRow(o, action, status) ==
    [order_id |-> o, action |-> action, status |-> status,
     error_message |-> (status = "error")]

(* insert of a row into shiprocket_logs, a table without keys: a bag of rows *)
AddLog(lgs, row) == lgs (+) SetToBag({row})

(* update of the columns in upd on the rows of tbl selected by ids *)
Update(tbl, ids, upd) ==
    [k \in DOMAIN tbl |->
        IF k \in ids
        THEN [f \in DOMAIN tbl[k] |-> IF f \in DOMAIN upd THEN upd[f] ELSE tbl[k][f]]
        ELSE tbl[k]]

Result(ords, lgs, co, ret, calls) ==
    [orders |-> ords, logs |-> lgs, carrierOrders |-> co, ret |-> ret, calls |-> calls]

(* courier serviceability: the companies the carrier reports, each with a rate *)
CourierIds == {1, 2, 3}
Rates == {10, 20}
CourierCompanies == [courier_company_id : CourierIds, rate : Rates]

(* lists of at most MaxCouriers companies with distinct ids *)
CourierLists ==
    {l \in UNION {[1..n -> CourierCompanies] : n \in 0..MaxCouriers} :
        \A i, j \in DOMAIN l : i # j => l[i].courier_company_id # l[j].courier_company_id}

(* replies of getAvailableCouriers: ok = FALSE when the call throws *)
NoCouriers == [ok |-> TRUE, available_courier_companies |-> <<>>]
CourierReplies ==
    {[ok |-> FALSE, available_courier_companies |-> <<>>]}
    \cup {[ok |-> TRUE, available_courier_companies |-> l] : l \in CourierLists}

(* a sort that puts the highest rate first *)
RECURSIVE sortCouriers_Descending(_)
sortCouriers_Descending(companies) ==
    IF companies = <<>> THEN <<>>
    ELSE LET rest == sortCouriers_Descending(Tail(companies))
             a == Head(companies)
             before == SelectSeq(rest, LAMBDA b : b.rate - a.rate > 0)
             after == SelectSeq(rest, LAMBDA b : ~(b.rate - a.rate > 0))
         IN  before \o <<a>> \o after

(* available_courier_companies.sort((a, b) => a.rate - b.rate): a stable *)
(* sort, so a stays ahead of the later elements it ties with             *)
RECURSIVE sortCouriers(_)
sortCouriers(companies) ==
    IF companies = <<>> THEN <<>>
    ELSE LET rest == sortCouriers(Tail(companies))
             a == Head(companies)
             before == SelectSeq(rest, LAMBDA b : a.rate - b.rate > 0)
             after == SelectSeq(rest, LAMBDA b : ~(a.rate - b.rate > 0))
         IN  before \o <<a>> \o after

(* courierId: undefined (NoId) when the check fails or reports no company *)
courierId(reply) ==
    IF reply.ok /\ Len(reply.available_courier_companies) > 0
    THEN sortCouriers(reply.available_courier_companies)[1].courier_company_id
    ELSE NoId

(* the body of the AWB assignment request; courier_id NoId: not sent *)
awbPayload(shipmentId, reply) ==
    [shipment_id |-> shipmentId, courier_id |-> courierId(reply)]

(* outcomes of the courier check, of the carrier's generate-AWB call and of *)
(* the order update after it                                                *)
AwbEnvsWith(replies, dbs) ==
    {[awb |-> "ok", code |-> c, updOk |-> b, couriers |-> r] :
        c \in AwbCodes, b \in dbs, r \in replies}
    \cup {[awb |-> a, code |-> NULL, updOk |-> TRUE, couriers |-> r] :
            a \in {"no_code", "throw"}, r \in replies}

AwbEnvsOn(dbs) == AwbEnvsWith({NoCouriers}, dbs)

(* an AWB generation whose catch block returns null without a log row *)
generateAWBForOrder_NoErrorLog(db, o, env) ==
    IF o \notin DOMAIN db.orders
    THEN Result(db.orders, AddLog(db.logs, LogRow(o, "generate_awb", "error")),
                db.carrierOrders, "null", 0)
    ELSE IF db.orders[o].awb_number # NULL
    THEN Result(db.orders, db.logs, db.carrierOrders, "existing", 0)
    ELSE IF env.awb # "ok"
    THEN Result(db.orders, db.logs, db.carrierOrders, "null", 2)
    ELSE Result(IF env.updOk
                THEN Update(db.orders, {o}, [awb_number |-> env.code,
                                             order_status |-> "processing"])
                ELSE db.orders,
                AddLog(db.logs, LogRow(o, "generate_awb", "success")),
                db.carrierOrders, "awb", 2)

generateAWBForOrder(db, o, env) ==
    IF o \notin DOMAIN db.orders
    THEN Result(db.orders, AddLog(db.logs, LogRow(o, "generate_awb", "error")),
                db.carrierOrders, "null", 0)
    ELSE IF db.orders[o].awb_number # NULL
    THEN Result(db.orders, db.logs, db.carrierOrders, "existing", 0)
    ELSE IF env.awb # "ok"
    THEN Result(db.orders, AddLog(db.logs, LogRow(o, "generate_awb", "error")),
                db.carrierOrders, "null", 2)
    ELSE Result(IF env.updOk
                THEN Update(db.orders, {o}, [awb_number |-> env.code,
                                             order_status |-> "processing"])
                ELSE db.orders,
                AddLog(db.logs, LogRow(o, "generate_awb", "success")),
                db.carrierOrders, "awb", 2)

(* outcomes of the carrier's create-order call, of the order update after *)
(* it and of the AWB generation that follows                              *)
CreateEnvsOn(dbs) ==
    {[api |-> a, updOk |-> TRUE,
      awb |-> [awb |-> "throw", code |-> NULL, updOk |-> TRUE, couriers |-> NoCouriers]] :
        a \in {"throw", "no_order_id", "no_shipment_id"}}
    \cup {[api |-> "ok", updOk |-> b, awb |-> e] : b \in dbs, e \in AwbEnvsOn(dbs)}

(* the catch block of createShipRocketOrder: log the error and rethrow *)
CreateThrow(db, o, lgs, co, calls) ==
    Result(db.orders, AddLog(lgs, LogRow(o, "create_order", "error")), co, "throw", calls)

(* a createShipRocketOrder that treats a failed orders update as an error *)
createShipRocketOrder_ThrowOnUpdateError(db, o, env) ==
    IF o \notin DOMAIN db.orders
    THEN CreateThrow(db, o, db.logs, db.carrierOrders, 0)
    ELSE IF db.orders[o].shiprocket_order_id # NoId
    THEN Result(db.orders, db.logs, db.carrierOrders, "synced", 0)
    ELSE IF Len(db.orders[o].items) = 0
    THEN CreateThrow(db, o, db.logs, db.carrierOrders, 0)
    ELSE
      LET order == db.orders[o]
          lg1 == AddLog(db.logs, LogRow(o, "create_order", "pending"))
          srId == db.carrierOrders[o] + 1
          co1 == [db.carrierOrders EXCEPT ![o] = srId]
      IN  CASE env.api = "throw" ->
                 CreateThrow(db, o, AddLog(lg1, LogRow(o, "create_order_api_error", "error")),
                             db.carrierOrders, 1)
            [] env.api = "no_order_id" ->
                 CreateThrow(db, o, AddLog(lg1, LogRow(o, "create_order_failed", "error")),
                             db.carrierOrders, 1)
            [] env.api = "no_shipment_id" ->
                 CreateThrow(db, o, AddLog(lg1, LogRow(o, "create_order_no_shipment", "error")),
                             co1, 1)
            [] ~env.updOk -> CreateThrow(db, o, lg1, co1, 1)
            [] OTHER ->
                 LET upd == IF order.payment_method # "cod"
                            THEN [shiprocket_order_id |-> srId,
                                  shiprocket_shipment_id |-> srId,
                                  order_status |-> "confirmed"]
                            ELSE [shiprocket_order_id |-> srId,
                                  shiprocket_shipment_id |-> srId]
                     ords2 == IF env.updOk THEN Update(db.orders, {o}, upd) ELSE db.orders
                     lg2 == AddLog(lg1, LogRow(o, "create_order", "success"))
                     awb == generateAWBForOrder(
                                [orders |-> ords2, logs |-> lg2, carrierOrders |-> co1],
                                o, env.awb)
                 IN  Result(awb.orders, awb.logs, awb.carrierOrders, "created", 1 + awb.calls)

(* a createShipRocketOrder that fails when the AWB generation fails *)
createShipRocketOrder_AwbFatal(db, o, env) ==
    IF o \notin DOMAIN db.orders
    THEN CreateThrow(db, o, db.logs, db.carrierOrders, 0)
    ELSE IF db.orders[o].shiprocket_order_id # NoId
    THEN Result(db.orders, db.logs, db.carrierOrders, "synced", 0)
    ELSE IF Len(db.orders[o].items) = 0
    THEN CreateThrow(db, o, db.logs, db.carrierOrders, 0)
    ELSE
      LET order == db.orders[o]
          lg1 == AddLog(db.logs, LogRow(o, "create_order", "pending"))
          srId == db.carrierOrders[o] + 1
          co1 == [db.carrierOrders EXCEPT ![o] = srId]
      IN  CASE env.api = "throw" ->
                 CreateThrow(db, o, AddLog(lg1, LogRow(o, "create_order_api_error", "error")),
                             db.carrierOrders, 1)
            [] env.api = "no_order_id" ->
                 CreateThrow(db, o, AddLog(lg1, LogRow(o, "create_order_failed", "error")),
                             db.carrierOrders, 1)
            [] env.api = "no_shipment_id" ->
                 CreateThrow(db, o, AddLog(lg1, LogRow(o, "create_order_no_shipment", "error")),
                             co1, 1)
            [] OTHER ->
                 LET upd == IF order.payment_method # "cod"
                            THEN [shiprocket_order_id |-> srId,
                                  shiprocket_shipment_id |-> srId,
                                  order_status |-> "confirmed"]
                            ELSE [shiprocket_order_id |-> srId,
                                  shiprocket_shipment_id |-> srId]
                     ords2 == IF env.updOk THEN Update(db.orders, {o}, upd) ELSE db.orders
                     lg2 == AddLog(lg1, LogRow(o, "create_order", "success"))
                     awb == generateAWBForOrder(
                                [orders |-> ords2, logs |-> lg2, carrierOrders |-> co1],
                                o, env.awb)
                 IN  IF awb.ret = "null"
                     THEN CreateThrow(db, o, awb.logs, awb.carrierOrders, 1 + awb.calls)
                     ELSE Result(awb.orders, awb.logs, awb.carrierOrders, "created",
                                 1 + awb.calls)

(* a createShipRocketOrder without the already-synced early return *)
createShipRocketOrder_NoSyncCheck(db, o, env) ==
    IF o \notin DOMAIN db.orders
    THEN CreateThrow(db, o, db.logs, db.carrierOrders, 0)
    ELSE IF Len(db.orders[o].items) = 0
    THEN CreateThrow(db, o, db.logs, db.carrierOrders, 0)
    ELSE
      LET order == db.orders[o]
          lg1 == AddLog(db.logs, LogRow(o, "create_order", "pending"))
          srId == db.carrierOrders[o] + 1
          co1 == [db.carrierOrders EXCEPT ![o] = srId]
      IN  CASE env.api = "throw" ->
                 CreateThrow(db, o, AddLog(lg1, LogRow(o, "create_order_api_error", "error")),
                             db.carrierOrders, 1)
            [] env.api = "no_order_id" ->
                 CreateThrow(db, o, AddLog(lg1, LogRow(o, "create_order_failed", "error")),
                             db.carrierOrders, 1)
            [] env.api = "no_shipment_id" ->
                 CreateThrow(db, o, AddLog(lg1, LogRow(o, "create_order_no_shipment", "error")),
                             co1, 1)
            [] OTHER ->
                 LET upd == IF order.payment_method # "cod"
                            THEN [shiprocket_order_id |-> srId,
                                  shiprocket_shipment_id |-> srId,
                                  order_status |-> "confirmed"]
                            ELSE [shiprocket_order_id |-> srId,
                                  shiprocket_shipment_id |-> srId]
                     ords2 == IF env.updOk THEN Update(db.orders, {o}, upd) ELSE db.orders
                     lg2 == AddLog(lg1, LogRow(o, "create_order", "success"))
                     awb == generateAWBForOrder(
                                [orders |-> ords2, logs |-> lg2, carrierOrders |-> co1],
                                o, env.awb)
                 IN  Result(awb.orders, awb.logs, awb.carrierOrders, "created", 1 + awb.calls)

(* createShipRocketOrder from the pending log insert on: what a call does *)
(* to the database db once it has read the order row and passed the       *)
(* checks on it                                                           *)
createAfterRead(db, o, env) ==
      LET order == db.orders[o]
          lg1 == AddLog(db.logs, LogRow(o, "create_order", "pending"))
          srId == db.carrierOrders[o] + 1
          co1 == [db.carrierOrders EXCEPT ![o] = srId]
      IN  CASE env.api = "throw" ->
                 CreateThrow(db, o, AddLog(lg1, LogRow(o, "create_order_api_error", "error")),
                             db.carrierOrders, 1)
            [] env.api = "no_order_id" ->
                 CreateThrow(db, o, AddLog(lg1, LogRow(o, "create_order_failed", "error")),
                             db.carrierOrders, 1)
            [] env.api = "no_shipment_id" ->
                 CreateThrow(db, o, AddLog(lg1, LogRow(o, "create_order_no_shipment", "error")),
                             co1, 1)
            [] OTHER ->
                 LET upd == IF order.payment_method # "cod"
                            THEN [shiprocket_order_id |-> srId,
                                  shiprocket_shipment_id |-> srId,
                                  order_status |-> "confirmed"]
                            ELSE [shiprocket_order_id |-> srId,
                                  shiprocket_shipment_id |-> srId]
                     ords2 == IF env.updOk THEN Update(db.orders, {o}, upd) ELSE db.orders
                     lg2 == AddLog(lg1, LogRow(o, "create_order", "success"))
                     awb == generateAWBForOrder(
                                [orders |-> ords2, logs |-> lg2, carrierOrders |-> co1],
                                o, env.awb)
                 IN  Result(awb.orders, awb.logs, awb.carrierOrders, "created", 1 + awb.calls)

createShipRocketOrder(db, o, env) ==
    IF o \notin DOMAIN db.orders
    THEN CreateThrow(db, o, db.logs, db.carrierOrders, 0)
    ELSE IF db.orders[o].shiprocket_order_id # NoId
    THEN Result(db.orders, db.logs, db.carrierOrders, "synced", 0)
    ELSE IF Len(db.orders[o].items) = 0
    THEN CreateThrow(db, o, db.logs, db.carrierOrders, 0)
    ELSE
      createAfterRead(db, o, env)

PickupEnvsOn(dbs) ==
    {[api |-> "ok", updOk |-> b] : b \in dbs} \cup {[api |-> "throw", updOk |-> TRUE]}

schedulePickupForOrder(db, o, env) ==
    IF \/ o \notin DOMAIN db.orders
       \/ db.orders[o].shiprocket_shipment_id = NoId
    THEN Result(db.orders, AddLog(db.logs, LogRow(o, "schedule_pickup", "error")),
                db.carrierOrders, "throw", 0)
    ELSE IF env.api = "throw"
    THEN Result(db.orders, AddLog(db.logs, LogRow(o, "schedule_pickup", "error")),
                db.carrierOrders, "throw", 1)
    ELSE Result(IF env.updOk
                THEN Update(db.orders, {o}, [pickup_scheduled_date |-> now,
                                             order_status |-> "ready_to_ship"])
                ELSE db.orders,
                AddLog(db.logs, LogRow(o, "schedule_pickup", "success")),
                db.carrierOrders, "ok", 1)

DB == [orders |-> orders, logs |-> logs, carrierOrders |-> carrierOrders]

(* the handler's effect r on the database becomes the next state, within the bounds *)
Commit(r) ==
    /\ BagCardinality(r.logs) <= MaxLogs
    /\ \A o \in OrderIds : r.carrierOrders[o] <= MaxCarrierOrders
    /\ orders' = r.orders
    /\ logs' = r.logs
    /\ carrierOrders' = r.carrierOrders

(* POST /api/shiprocket/create-order *)
ShiprocketCreateOrderRouteOn(dbs) ==
    \E o \in OrderIds, env \in CreateEnvsOn(dbs) :
        LET r == createShipRocketOrder(DB, o, env)
        IN  /\ Commit(r)
            /\ last' = [op |-> "shiprocket_create_order", order |-> o,
                        status |-> IF r.ret = "throw" THEN 500 ELSE 200,
                        calls |-> r.calls]
            /\ UNCHANGED <<exchanges, inflight, now, vOrig, vReq, creating, productImages, client>>

(* POST of the admin carrier route: create | generate_awb | schedule_pickup *)
AdminShiprocketCreate(o, env) ==
    LET r == createShipRocketOrder(DB, o, env)
    IN  /\ Commit(r)
        /\ last' = [op |-> "admin_shiprocket", action |-> "create", order |-> o,
                    status |-> IF r.ret = "throw" THEN 500 ELSE 200, calls |-> r.calls]

(* couriers / awbPayload: what the courier check replied and what was sent *)
(* to the AWB assignment endpoint, when the handler got that far           *)
AdminShiprocketGenerateAwb(o, env) ==
    IF o \notin DOMAIN orders \/ orders[o].shiprocket_shipment_id = NoId
    THEN /\ UNCHANGED <<orders, logs, carrierOrders>>
         /\ last' = [op |-> "admin_shiprocket", action |-> "generate_awb", order |-> o,
                     status |-> 400, calls |-> 0,
                     couriers |-> NoCouriers, awbPayload |-> awbPayload(NoId, NoCouriers)]
    ELSE LET r == generateAWBForOrder(DB, o, env)
         IN  /\ Commit(r)
             /\ last' = [op |-> "admin_shiprocket", action |-> "generate_awb", order |-> o,
                         status |-> 200, calls |-> r.calls,
                         couriers |-> IF r.calls > 0 THEN env.couriers ELSE NoCouriers,
                         awbPayload |->
                            IF r.calls > 0
                            THEN awbPayload(orders[o].shiprocket_shipment_id, env.couriers)
                            ELSE awbPayload(NoId, NoCouriers)]

AdminShiprocketSchedulePickup(o, env) ==
    LET r == schedulePickupForOrder(DB, o, env)
    IN  /\ Commit(r)
        /\ last' = [op |-> "admin_shiprocket", action |-> "schedule_pickup", order |-> o,
                    status |-> IF r.ret = "throw" THEN 500 ELSE 200, calls |-> r.calls]

AdminShiprocketWith(createEnvs, awbEnvs, pickupEnvs) ==
    /\ \E o \in OrderIds :
          \/ \E env \in createEnvs : AdminShiprocketCreate(o, env)
          \/ \E env \in awbEnvs : AdminShiprocketGenerateAwb(o, env)
          \/ \E env \in pickupEnvs : AdminShiprocketSchedulePickup(o, env)
    /\ UNCHANGED <<exchanges, inflight, now, vOrig, vReq, creating, productImages, client>>

AdminShiprocketOn(dbs) ==
    AdminShiprocketWith(CreateEnvsOn(dbs), AwbEnvsOn(dbs), PickupEnvsOn(dbs))

ShiprocketCreateOrderRoute == ShiprocketCreateOrderRouteOn({TRUE})

AdminShiprocket == AdminShiprocketOn({TRUE})

(* the admin carrier route with every reply of the courier check *)
AdminShiprocketCouriers ==
    AdminShiprocketWith(CreateEnvsOn({TRUE}), AwbEnvsWith(CourierReplies, {TRUE}),
                        PickupEnvsOn({TRUE}))

(* ------------------------------------------------------------------------ *)
(* Razorpay webhook (app/api/webhooks/razorpay/route.ts)                    *)
(* ------------------------------------------------------------------------ *)

WEBHOOK_SECRET == "whsec"
SigningKeys == {WEBHOOK_SECRET, "attacker_key"}

WebhookEvents == {"payment.captured", "payment.failed", "order.paid"}

(* raw request bodies: well-formed events, a body that is not JSON, and  *)
(* JSON that is not a webhook event                                      *)
EventBodies == [kind : {"event"}, event : WebhookEvents, order_id : RazorpayOrderIds]

WebhookBodies ==
    EventBodies \cup {[kind |-> "not_json", event |-> "", order_id |-> ""],
                      [kind |-> "bad_shape", event |-> "", order_id |-> ""]}

AbsentBody == [kind |-> "none", event |-> "", order_id |-> ""]

(* crypto.createHmac("sha256", key).update(msg).digest("hex"): the digest *)
(* is determined by the key and the message, and differs when they differ *)
Hmac(key, msg) == [key |-> key, msg |-> msg]

NoHeader == [key |-> "absent", msg |-> AbsentBody]
EmptyHeader == [key |-> "empty", msg |-> AbsentBody]

(* x-razorpay-signature headers sent along with body: absent, empty, the  *)
(* body signed with either key, and another body signed with the secret  *)
SignatureHeaders(body) ==
    {NoHeader, EmptyHeader} \cup {Hmac(k, body) : k \in SigningKeys}
    \cup {Hmac(WEBHOOK_SECRET, m) : m \in EventBodies}

SignedHeaders(body) == {Hmac(k, body) : k \in SigningKeys}

(* a verification that checks the signing key but not the signed body *)
verifyWebhookSignature_KeyOnly(body, signature, secret) ==
    signature.key = secret

verifyWebhookSignature(body, signature, secret) ==
    LET expectedSignature == Hmac(secret, body)
    IN  expectedSignature = signature

(* rows selected by .eq("razorpay_order_id", id) *)
OrdersByRazorpayId(ords, id) == {o \in DOMAIN ords : ords[o].razorpay_order_id = id}

NoCreate == [api |-> "throw", updOk |-> TRUE,
             awb |-> [awb |-> "throw", code |-> NULL, updOk |-> TRUE]]

(* outcomes of the order lookup, of the payment update and of the shipment creation *)
CapturedEnvsOn(dbs) ==
    {[findOk |-> b, updOk |-> TRUE, create |-> NoCreate] : b \in dbs \ {TRUE}}
    \cup {[findOk |-> TRUE, updOk |-> b, create |-> NoCreate] : b \in dbs \ {TRUE}}
    \cup {[findOk |-> TRUE, updOk |-> TRUE, create |-> e] : e \in CreateEnvsOn(dbs)}

(* a handler that lets a failed shipment creation fail the webhook *)
handlePaymentCaptured_FailOnThrow(db, payment, env) ==
    LET found == OrdersByRazorpayId(db.orders, payment.order_id)
    IN  IF ~env.findOk \/ Cardinality(found) # 1
        THEN Result(db.orders, db.logs, db.carrierOrders, "fail", 0)
        ELSE
          LET o == CHOOSE x \in found : TRUE
              order == db.orders[o]
          IN  IF order.payment_status = "paid" /\ order.shiprocket_order_id # NoId
              THEN Result(db.orders, db.logs, db.carrierOrders, "ok", 0)
              ELSE IF ~env.updOk
              THEN Result(db.orders, db.logs, db.carrierOrders, "fail", 0)
              ELSE
                LET ords1 == Update(db.orders, {o}, [payment_status |-> "paid",
                                                     order_status |-> "confirmed"])
                    db1 == [orders |-> ords1, logs |-> db.logs,
                            carrierOrders |-> db.carrierOrders]
                IN  IF order.shiprocket_order_id # NoId
                    THEN Result(ords1, db.logs, db.carrierOrders, "ok", 0)
                    ELSE
                      LET r == createShipRocketOrder(db1, o, env.create)
                      IN  IF r.ret = "throw"
                          THEN Result(r.orders, r.logs, r.carrierOrders, "fail", r.calls)
                          ELSE Result(r.orders, r.logs, r.carrierOrders, "ok", r.calls)

handlePaymentCaptured(db, payment, env) ==
    LET found == OrdersByRazorpayId(db.orders, payment.order_id)
    IN  IF ~env.findOk \/ Cardinality(found) # 1
        THEN Result(db.orders, db.logs, db.carrierOrders, "fail", 0)
        ELSE
          LET o == CHOOSE x \in found : TRUE
              order == db.orders[o]
          IN  IF order.payment_status = "paid" /\ order.shiprocket_order_id # NoId
              THEN Result(db.orders, db.logs, db.carrierOrders, "ok", 0)
              ELSE IF ~env.updOk
              THEN Result(db.orders, db.logs, db.carrierOrders, "fail", 0)
              ELSE
                LET ords1 == Update(db.orders, {o}, [payment_status |-> "paid",
                                                     order_status |-> "confirmed"])
                    db1 == [orders |-> ords1, logs |-> db.logs,
                            carrierOrders |-> db.carrierOrders]
                IN  IF order.shiprocket_order_id # NoId
                    THEN Result(ords1, db.logs, db.carrierOrders, "ok", 0)
                    ELSE
                      LET r == createShipRocketOrder(db1, o, env.create)
                      IN  IF r.ret = "throw"
                          THEN Result(r.orders,
                                      AddLog(r.logs, LogRow(o, "webhook_auto_create", "error")),
                                      r.carrierOrders, "ok", r.calls)
                          ELSE Result(r.orders, r.logs, r.carrierOrders, "ok", r.calls)

handlePaymentFailed(db, payment, updOk) ==
    IF ~updOk
    THEN Result(db.orders, db.logs, db.carrierOrders, "fail", 0)
    ELSE Result(Update(db.orders, OrdersByRazorpayId(db.orders, payment.order_id),
                       [payment_status |-> "failed", order_status |-> "payment_failed"]),
                db.logs, db.carrierOrders, "ok", 0)

WebhookReply(body, signature, secretSet, status, calls) ==
    [op |-> "razorpay_webhook", body |-> body, signature |-> signature,
     secretSet |-> secretSet, status |-> status, calls |-> calls]

(* headers: the signature headers a request with a given body can carry *)
RazorpayWebhookOn(bodies, headers, secrets, dbs) ==
    \E body \in bodies, secretSet \in secrets :
    \E signature \in headers[body] :
      /\ UNCHANGED <<exchanges, inflight, now, vOrig, vReq, creating, productImages, client>>
      /\ IF signature \in {NoHeader, EmptyHeader}
         THEN /\ UNCHANGED <<orders, logs, carrierOrders>>
              /\ last' = WebhookReply(body, signature, secretSet, 400, 0)
         ELSE IF ~secretSet
         THEN /\ UNCHANGED <<orders, logs, carrierOrders>>
              /\ last' = WebhookReply(body, signature, secretSet, 500, 0)
         ELSE IF ~verifyWebhookSignature(body, signature, WEBHOOK_SECRET)
         THEN /\ UNCHANGED <<orders, logs, carrierOrders>>
              /\ last' = WebhookReply(body, signature, secretSet, 401, 0)
         ELSE IF body.kind = "not_json"
         THEN /\ UNCHANGED <<orders, logs, carrierOrders>>
              /\ last' = WebhookReply(body, signature, secretSet, 500, 0)
         ELSE IF body.kind = "bad_shape"
         THEN /\ UNCHANGED <<orders, logs, carrierOrders>>
              /\ last' = WebhookReply(body, signature, secretSet, 400, 0)
         ELSE IF body.event = "payment.captured"
         THEN \E env \in CapturedEnvsOn(dbs) :
                LET r == handlePaymentCaptured(DB, body, env)
                IN  /\ Commit(r)
                    /\ last' = WebhookReply(body, signature, secretSet,
                                            IF r.ret = "ok" THEN 200 ELSE 500, r.calls)
         ELSE IF body.event = "payment.failed"
         THEN \E updOk \in dbs :
                LET r == handlePaymentFailed(DB, body, updOk)
                IN  /\ Commit(r)
                    /\ last' = WebhookReply(body, signature, secretSet,
                                            IF r.ret = "ok" THEN 200 ELSE 500, r.calls)
         ELSE /\ UNCHANGED <<orders, logs, carrierOrders>>
              /\ last' = WebhookReply(body, signature, secretSet, 200, 0)

RazorpayWebhook ==
    RazorpayWebhookOn(EventBodies, [b \in EventBodies |-> SignedHeaders(b)], {TRUE}, {TRUE})

RazorpayWebhookAny ==
    RazorpayWebhookOn(WebhookBodies, [b \in WebhookBodies |-> SignatureHeaders(b)], BOOLEAN, BOOLEAN)

(* ------------------------------------------------------------------------ *)
(* POST /api/razorpay/verify-payment                                        *)
(* ------------------------------------------------------------------------ *)

KEY_SECRET == "key_secret"
PaymentIds == {"pay_1"}

(* lib/razorpay verifyRazorpaySignature: the gateway signs                *)
(* razorpay_order_id | razorpay_payment_id with the key secret            *)
verifyRazorpaySignature(rzpOrderId, paymentId, signature, secret) ==
    Hmac(secret, <<rzpOrderId, paymentId>>) = signature

PaymentSignatures ==
    {Hmac(k, <<r, p>>) : k \in {KEY_SECRET, "attacker_key"}, r \in RazorpayOrderIds,
                         p \in PaymentIds}

(* lib/supabase-orders updateOrderPayment: writes the payment columns of *)
(* the order row, and throws when the row cannot be updated              *)
updateOrderPayment(ords, o, upd) == Update(ords, {o}, upd)

(* pre: the outcome of the rate limit, body and key checks; updated: the *)
(* order update to paid succeeded; create: what createShipRocketOrder did *)
VerifyReply(o, rzp, pay, signature, pre, updated, create, status, calls) ==
    [op |-> "verify_payment", order |-> o, rzp |-> rzp, payment_id |-> pay,
     signature |-> signature, pre |-> pre, updated |-> updated, create |-> create,
     status |-> status, calls |-> calls]

(* a handler that goes on to shipment creation when the order update fails *)
VerifyPaymentOn_IgnoreUpdateError(pres, dbs) ==
    \E o \in OrderIds, rzp \in RazorpayOrderIds, pay \in PaymentIds,
       signature \in PaymentSignatures, pre \in pres :
      /\ UNCHANGED <<exchanges, inflight, now, vOrig, vReq, creating, productImages, client>>
      /\ IF pre # "ok"
         THEN /\ UNCHANGED <<orders, logs, carrierOrders>>
              /\ last' = VerifyReply(o, rzp, pay, signature, pre, FALSE, "none",
                                     CASE pre = "rate_limited" -> 429
                                       [] pre = "bad_body" -> 400
                                       [] OTHER -> 500, 0)
         ELSE IF ~verifyRazorpaySignature(rzp, pay, signature, KEY_SECRET)
         THEN /\ UNCHANGED <<orders, logs, carrierOrders>>
              /\ last' = VerifyReply(o, rzp, pay, signature, pre, FALSE, "none", 400, 0)
         ELSE \E updOk \in dbs :
                IF ~updOk \/ o \notin DOMAIN orders
                THEN \E env \in CreateEnvsOn(dbs) :
                       LET r == createShipRocketOrder(DB, o, env)
                       IN  /\ Commit(r)
                           /\ last' = VerifyReply(o, rzp, pay, signature, pre, FALSE, r.ret,
                                                  200, r.calls)
                ELSE \E env \in CreateEnvsOn(dbs) :
                       LET ords1 == updateOrderPayment(orders, o, [payment_status |-> "paid"])
                           r == createShipRocketOrder(
                                    [orders |-> ords1, logs |-> logs,
                                     carrierOrders |-> carrierOrders], o, env)
                       IN  /\ Commit(r)
                           /\ last' = VerifyReply(o, rzp, pay, signature, pre, TRUE, r.ret,
                                                  200, r.calls)

(* a handler that answers 500 when shipment creation throws *)
VerifyPaymentOn_FailOnThrow(pres, dbs) ==
    \E o \in OrderIds, rzp \in RazorpayOrderIds, pay \in PaymentIds,
       signature \in PaymentSignatures, pre \in pres :
      /\ UNCHANGED <<exchanges, inflight, now, vOrig, vReq, creating, productImages, client>>
      /\ IF pre # "ok"
         THEN /\ UNCHANGED <<orders, logs, carrierOrders>>
              /\ last' = VerifyReply(o, rzp, pay, signature, pre, FALSE, "none",
                                     CASE pre = "rate_limited" -> 429
                                       [] pre = "bad_body" -> 400
                                       [] OTHER -> 500, 0)
         ELSE IF ~verifyRazorpaySignature(rzp, pay, signature, KEY_SECRET)
         THEN /\ UNCHANGED <<orders, logs, carrierOrders>>
              /\ last' = VerifyReply(o, rzp, pay, signature, pre, FALSE, "none", 400, 0)
         ELSE \E updOk \in dbs :
                IF ~updOk \/ o \notin DOMAIN orders
                THEN /\ UNCHANGED <<orders, logs, carrierOrders>>
                     /\ last' = VerifyReply(o, rzp, pay, signature, pre, FALSE, "none", 500, 0)
                ELSE \E env \in CreateEnvsOn(dbs) :
                       LET ords1 == updateOrderPayment(orders, o, [payment_status |-> "paid"])
                           r == createShipRocketOrder(
                                    [orders |-> ords1, logs |-> logs,
                                     carrierOrders |-> carrierOrders], o, env)
                       IN  /\ Commit(r)
                           /\ last' = VerifyReply(o, rzp, pay, signature, pre, TRUE, r.ret,
                                                  IF r.ret = "throw" THEN 500 ELSE 200, r.calls)

(* POST /api/razorpay/verify-payment *)
VerifyPaymentOn(pres, dbs) ==
    \E o \in OrderIds, rzp \in RazorpayOrderIds, pay \in PaymentIds,
       signature \in PaymentSignatures, pre \in pres :
      /\ UNCHANGED <<exchanges, inflight, now, vOrig, vReq, creating, productImages, client>>
      /\ IF pre # "ok"
         THEN /\ UNCHANGED <<orders, logs, carrierOrders>>
              /\ last' = VerifyReply(o, rzp, pay, signature, pre, FALSE, "none",
                                     CASE pre = "rate_limited" -> 429
                                       [] pre = "bad_body" -> 400
                                       [] OTHER -> 500, 0)
         ELSE IF ~verifyRazorpaySignature(rzp, pay, signature, KEY_SECRET)
         THEN /\ UNCHANGED <<orders, logs, carrierOrders>>
              /\ last' = VerifyReply(o, rzp, pay, signature, pre, FALSE, "none", 400, 0)
         ELSE \E updOk \in dbs :
                IF ~updOk \/ o \notin DOMAIN orders
                THEN /\ UNCHANGED <<orders, logs, carrierOrders>>
                     /\ last' = VerifyReply(o, rzp, pay, signature, pre, FALSE, "none", 500, 0)
                ELSE \E env \in CreateEnvsOn(dbs) :
                       LET ords1 == updateOrderPayment(orders, o, [payment_status |-> "paid"])
                           r == createShipRocketOrder(
                                    [orders |-> ords1, logs |-> logs,
                                     carrierOrders |-> carrierOrders], o, env)
                       IN  /\ Commit(r)
                           /\ last' = VerifyReply(o, rzp, pay, signature, pre, TRUE, r.ret,
                                                  200, r.calls)

VerifyPayment == VerifyPaymentOn({"ok"}, {TRUE})

VerifyPaymentAny == VerifyPaymentOn({"ok", "rate_limited", "bad_body", "no_key"}, BOOLEAN)

(* ------------------------------------------------------------------------ *)
(* Carrier status webhook (app/api/webhooks/shiprocket/route.ts)            *)
(* ------------------------------------------------------------------------ *)

(* status strings a carrier payload can carry *)
RawStatuses ==
    {"PICKUP SCHEDULED", "PICKED UP", "IN TRANSIT", "OUT FOR DELIVERY", "DELIVERED",
     "RTO IN TRANSIT", "RTO DELIVERED", "CANCELLED", "LOST", "DAMAGED",
     "Delivered", "in transit", "SHIPPED", ""}

(* String.prototype.toUpperCase on the strings of RawStatuses *)
toUpperCase(str) ==
    CASE str = "Delivered" -> "DELIVERED"
      [] str = "in transit" -> "IN TRANSIT"
      [] OTHER -> str

statusMap ==
    [k \in {"PICKUP SCHEDULED", "PICKED UP", "IN TRANSIT", "OUT FOR DELIVERY", "DELIVERED",
            "RTO IN TRANSIT", "RTO DELIVERED", "CANCELLED", "LOST", "DAMAGED"} |->
        CASE k = "PICKUP SCHEDULED" -> "ready_to_ship"
          [] k = "PICKED UP" -> "shipped"
          [] k = "IN TRANSIT" -> "shipped"
          [] k = "OUT FOR DELIVERY" -> "out_for_delivery"
          [] k = "DELIVERED" -> "delivered"
          [] k = "RTO IN TRANSIT" -> "return_in_transit"
          [] k = "RTO DELIVERED" -> "returned"
          [] k = "CANCELLED" -> "cancelled"
          [] k = "LOST" -> "lost"
          [] k = "DAMAGED" -> "damaged"]

(* a lookup that compares the status string case-sensitively *)
mapShipRocketStatus_CaseSensitive(shipRocketStatus) ==
    IF shipRocketStatus \in DOMAIN statusMap
    THEN statusMap[shipRocketStatus]
    ELSE "processing"

mapShipRocketStatus(shipRocketStatus) ==
    IF toUpperCase(shipRocketStatus) \in DOMAIN statusMap
    THEN statusMap[toUpperCase(shipRocketStatus)]
    ELSE "processing"

(* a ?? b: b when a is absent *)
Coalesce(a, b) == IF a = NULL THEN b ELSE a

(* the order the payload names: by order number, else by airway-bill number *)
FindWebhookOrder(ords, order_id, awb) ==
    LET byNumber == IF order_id \in {NULL, ""} THEN {}
                    ELSE {o \in DOMAIN ords : o = order_id}
        byAwb == IF awb \in {NULL, ""} THEN {}
                 ELSE {o \in DOMAIN ords : ords[o].awb_number = awb}
    IN  IF Cardinality(byNumber) = 1 THEN byNumber
        ELSE IF Cardinality(byAwb) = 1 THEN byAwb
        ELSE {}

CarrierReply(o, raw, status) ==
    [op |-> "carrier_webhook", order |-> o, raw |-> raw, status |-> status]

CarrierWebhookOn(orderIds, awbs, statuses, dbs) ==
    \E order_id \in orderIds, awb \in awbs, current_status \in statuses, updOk \in dbs :
    \E shipment_status \in IF current_status = NULL THEN {NULL, "DELIVERED"} ELSE {NULL} :
      LET found == FindWebhookOrder(orders, order_id, awb)
          rawStatus == Coalesce(Coalesce(current_status, shipment_status), "")
          newStatus == mapShipRocketStatus(rawStatus)
      IN  /\ UNCHANGED <<exchanges, inflight, now, vOrig, vReq, creating, productImages, client, carrierOrders>>
          /\ IF found = {}
             THEN /\ UNCHANGED <<orders, logs>>
                  /\ last' = CarrierReply(NULL, rawStatus, 404)
             ELSE LET o == CHOOSE x \in found : TRUE
                      order == orders[o]
                      updateData ==
                          [order_status |-> newStatus,
                           shipped_at |-> IF newStatus = "shipped" /\ order.shipped_at = NoTime
                                          THEN now ELSE order.shipped_at,
                           delivered_at |-> IF newStatus = "delivered"
                                               /\ order.delivered_at = NoTime
                                            THEN now ELSE order.delivered_at,
                           awb_number |-> IF awb # NULL /\ order.awb_number = NULL
                                          THEN awb ELSE order.awb_number]
                  IN  IF ~updOk
                      THEN /\ UNCHANGED <<orders, logs>>
                           /\ last' = CarrierReply(o, rawStatus, 500)
                      ELSE /\ BagCardinality(logs) < MaxLogs
                           /\ orders' = Update(orders, {o}, updateData)
                           /\ logs' = AddLog(logs, LogRow(o, "webhook_received", "success"))
                           /\ last' = CarrierReply(o, rawStatus, 200)

CarrierWebhook ==
    CarrierWebhookOn(OrderIds, {NULL}, DOMAIN statusMap \cup {"SHIPPED"}, {TRUE})

CarrierWebhookAny ==
    CarrierWebhookOn(OrderIds \cup {NULL, "o_unknown"}, AwbCodes \cup {NULL},
                     RawStatuses \cup {NULL}, BOOLEAN)

(* ------------------------------------------------------------------------ *)
(* Admin order status updates (app/api/admin/orders/route.ts)               *)
(* ------------------------------------------------------------------------ *)

AdminOrderStatuses == {"pending", "confirmed", "processing", "shipped", "delivered", "cancelled"}

(* the columns a status update writes: shipped_at / delivered_at are stamped *)
(* whenever the new status is shipped / delivered                           *)
StatusUpdates(order, order_status) ==
    [order_status |-> order_status,
     shipped_at |-> IF order_status = "shipped" THEN now ELSE order.shipped_at,
     delivered_at |-> IF order_status = "delivered" THEN now ELSE order.delivered_at]

AdminReply(op, ids, order_status, status) ==
    [op |-> op, ids |-> ids, order_status |-> order_status, status |-> status]

(* a column the request body does not carry *)
Absent == -2

(* the timestamps a PUT body can carry in shipped_at / delivered_at: *)
(* none, null, or a date                                             *)
BodyStamps == {Absent, NoTime, 0}

(* PUT updates that stamp only when the body has no such column *)
putUpdates_StampIfAbsent(order, order_status, shipped_at, delivered_at) ==
    [order_status |-> IF order_status = NULL THEN order.order_status ELSE order_status,
     shipped_at |-> IF order_status = "shipped" /\ shipped_at = Absent THEN now
                    ELSE IF shipped_at = Absent THEN order.shipped_at ELSE shipped_at,
     delivered_at |-> IF order_status = "delivered" /\ delivered_at = Absent THEN now
                      ELSE IF delivered_at = Absent THEN order.delivered_at
                      ELSE delivered_at]

(* the updates of PUT: the body's columns, then order_status with          *)
(* shipped_at / delivered_at stamped when the body's value is missing or   *)
(* null                                                                    *)
putUpdates(order, order_status, shipped_at, delivered_at) ==
    [order_status |-> IF order_status = NULL THEN order.order_status ELSE order_status,
     shipped_at |-> IF order_status = "shipped" /\ shipped_at \in {Absent, NoTime} THEN now
                    ELSE IF shipped_at = Absent THEN order.shipped_at ELSE shipped_at,
     delivered_at |-> IF order_status = "delivered" /\ delivered_at \in {Absent, NoTime}
                      THEN now
                      ELSE IF delivered_at = Absent THEN order.delivered_at
                      ELSE delivered_at]

AdminOrderPutWith(statuses, stamps, dbs) ==
    \E id \in OrderIds, order_status \in statuses, shipped_at \in stamps,
       delivered_at \in stamps, dbOk \in dbs :
      /\ UNCHANGED <<exchanges, logs, carrierOrders, inflight, now, vOrig, vReq, creating, productImages, client>>
      /\ IF ~dbOk \/ id \notin DOMAIN orders
         THEN /\ UNCHANGED orders
              /\ last' = AdminReply("admin_order_put", {id}, order_status, 500)
         ELSE /\ orders' = Update(orders, {id},
                                  putUpdates(orders[id], order_status, shipped_at,
                                             delivered_at))
              /\ last' = AdminReply("admin_order_put", {id}, order_status, 200)

AdminOrderPutOn(statuses, dbs) ==
    \E id \in OrderIds, order_status \in statuses, dbOk \in dbs :
      /\ UNCHANGED <<exchanges, logs, carrierOrders, inflight, now, vOrig, vReq, creating, productImages, client>>
      /\ IF ~dbOk \/ id \notin DOMAIN orders
         THEN /\ UNCHANGED orders
              /\ last' = AdminReply("admin_order_put", {id}, order_status, 500)
         ELSE /\ orders' = IF order_status = NULL THEN orders
                           ELSE Update(orders, {id}, StatusUpdates(orders[id], order_status))
              /\ last' = AdminReply("admin_order_put", {id}, order_status, 200)

AdminOrderPatchOn(dbs) ==
    \E orderIds \in SUBSET OrderIds, order_status \in AdminOrderStatuses, dbOk \in dbs :
      /\ UNCHANGED <<exchanges, logs, carrierOrders, inflight, now, vOrig, vReq, creating, productImages, client>>
      /\ IF ~dbOk
         THEN /\ UNCHANGED orders
              /\ last' = AdminReply("admin_order_patch", orderIds, order_status, 500)
         ELSE /\ orders' = [k \in DOMAIN orders |->
                               IF k \in orderIds
                               THEN Update(orders, {k}, StatusUpdates(orders[k], order_status))[k]
                               ELSE orders[k]]
              /\ last' = AdminReply("admin_order_patch", orderIds, order_status, 200)

AdminOrderPut == AdminOrderPutOn(AdminOrderStatuses \cup {NULL}, {TRUE})

AdminOrderPatch == AdminOrderPatchOn({TRUE})

(* PUT requests that set a status, with every kind of timestamp column *)
AdminOrderStatusPut == AdminOrderPutWith(AdminOrderStatuses, BodyStamps, {TRUE})

(* ------------------------------------------------------------------------ *)
(* Exchange requests                                                        *)
(* ------------------------------------------------------------------------ *)

ExchangeStatuses == {"pending", "approved", "rejected", "shipped", "completed", "cancelled"}
TrackingNumbers == {"TRK1"}
NoDays == NoTime

(* ids of the order's exchange requests whose status is one of sts *)
ExchangesOf(orderId, sts) ==
    {i \in DOMAIN exchanges : exchanges[i].order_id = orderId /\ exchanges[i].status \in sts}

(* the rows a query without ORDER BY can return first *)
FirstRows(ids) == IF ids = {} THEN {NoId} ELSE ids

(* .eq("id", orderId).eq("user_id", userId).single() finds a row *)
OrderOfUser(orderId, userId) ==
    orderId \in DOMAIN orders /\ orders[orderId].user_id = userId

EligibilityResult(eligible, reason, existingExchangeId, daysRemaining) ==
    [eligible |-> eligible, reason |-> reason,
     existingExchangeId |-> existingExchangeId, daysRemaining |-> daysRemaining]

(* Math.floor((now - delivered) / (1000 * 60 * 60 * 24)) *)
daysSinceDelivery(delivered_at, t) == (t - delivered_at) \div MS_PER_DAY

PostActiveStatuses == {"pending", "approved", "processing", "shipped"}

(* an eligibility check that looks at the order's status before its exchanges *)
checkEligibility_StatusFirst(orderId, userId, first, t) ==
    IF ~OrderOfUser(orderId, userId)
    THEN EligibilityResult(FALSE, "not_found", NoId, NoDays)
    ELSE IF orders[orderId].order_status # "delivered"
    THEN EligibilityResult(FALSE, "not_delivered", NoId, NoDays)
    ELSE IF orders[orderId].payment_status # "paid"
    THEN EligibilityResult(FALSE, "not_paid", NoId, NoDays)
    ELSE IF ExchangesOf(orderId, PostActiveStatuses) # {}
    THEN EligibilityResult(FALSE, "active_exchange", first, NoDays)
    ELSE IF orders[orderId].delivered_at = NoTime
    THEN EligibilityResult(FALSE, "no_delivery_date", NoId, NoDays)
    ELSE IF daysSinceDelivery(orders[orderId].delivered_at, t) > EXCHANGE_WINDOW_DAYS
    THEN EligibilityResult(FALSE, "window_expired", NoId, NoDays)
    ELSE EligibilityResult(TRUE, NULL, NoId,
            EXCHANGE_WINDOW_DAYS - daysSinceDelivery(orders[orderId].delivered_at, t))

(* an eligibility check that does not look at the payment status *)
checkEligibility_Unpaid(orderId, userId, first, t) ==
    IF ~OrderOfUser(orderId, userId)
    THEN EligibilityResult(FALSE, "not_found", NoId, NoDays)
    ELSE IF ExchangesOf(orderId, PostActiveStatuses) # {}
    THEN EligibilityResult(FALSE, "active_exchange", first, NoDays)
    ELSE IF orders[orderId].order_status # "delivered"
    THEN EligibilityResult(FALSE, "not_delivered", NoId, NoDays)
    ELSE IF orders[orderId].delivered_at = NoTime
    THEN EligibilityResult(FALSE, "no_delivery_date", NoId, NoDays)
    ELSE IF daysSinceDelivery(orders[orderId].delivered_at, t) > EXCHANGE_WINDOW_DAYS
    THEN EligibilityResult(FALSE, "window_expired", NoId, NoDays)
    ELSE EligibilityResult(TRUE, NULL, NoId,
            EXCHANGE_WINDOW_DAYS - daysSinceDelivery(orders[orderId].delivered_at, t))

(* first is the row the active-exchange query returned first, t the time of the check *)
checkEligibility(orderId, userId, first, t) ==
    IF ~OrderOfUser(orderId, userId)
    THEN EligibilityResult(FALSE, "not_found", NoId, NoDays)
    ELSE IF ExchangesOf(orderId, PostActiveStatuses) # {}
    THEN EligibilityResult(FALSE, "active_exchange", first, NoDays)
    ELSE IF orders[orderId].order_status # "delivered"
    THEN EligibilityResult(FALSE, "not_delivered", NoId, NoDays)
    ELSE IF orders[orderId].payment_status # "paid"
    THEN EligibilityResult(FALSE, "not_paid", NoId, NoDays)
    ELSE IF orders[orderId].delivered_at = NoTime
    THEN EligibilityResult(FALSE, "no_delivery_date", NoId, NoDays)
    ELSE IF daysSinceDelivery(orders[orderId].delivered_at, t) > EXCHANGE_WINDOW_DAYS
    THEN EligibilityResult(FALSE, "window_expired", NoId, NoDays)
    ELSE EligibilityResult(TRUE, NULL, NoId,
            EXCHANGE_WINDOW_DAYS - daysSinceDelivery(orders[orderId].delivered_at, t))

(* a validator that lets the quantity change *)
RECURSIVE validateSameProduct_AnyQuantity(_, _)
validateSameProduct_AnyQuantity(originalItems, requestedItems) ==
    IF Len(originalItems) # Len(requestedItems)
    THEN [valid |-> FALSE, error |-> "Item count mismatch"]
    ELSE IF originalItems = <<>>
    THEN [valid |-> TRUE, error |-> NULL]
    ELSE IF Head(originalItems).product_id # Head(requestedItems).product_id
    THEN [valid |-> FALSE, error |-> "Product exchange not allowed."]
    ELSE IF /\ Head(originalItems).size = Head(requestedItems).size
            /\ Head(originalItems).color = Head(requestedItems).color
    THEN [valid |-> FALSE, error |-> "Please select a different size or color."]
    ELSE validateSameProduct_AnyQuantity(Tail(originalItems), Tail(requestedItems))

(* the loop over i, returning at the first pair that fails *)
RECURSIVE validateSameProduct(_, _)
validateSameProduct(originalItems, requestedItems) ==
    IF Len(originalItems) # Len(requestedItems)
    THEN [valid |-> FALSE, error |-> "Item count mismatch"]
    ELSE IF originalItems = <<>>
    THEN [valid |-> TRUE, error |-> NULL]
    ELSE IF Head(originalItems).product_id # Head(requestedItems).product_id
    THEN [valid |-> FALSE, error |-> "Product exchange not allowed."]
    ELSE IF Head(originalItems).quantity # Head(requestedItems).quantity
    THEN [valid |-> FALSE, error |-> "Quantity cannot be changed."]
    ELSE IF /\ Head(originalItems).size = Head(requestedItems).size
            /\ Head(originalItems).color = Head(requestedItems).color
    THEN [valid |-> FALSE, error |-> "Please select a different size or color."]
    ELSE validateSameProduct(Tail(originalItems), Tail(requestedItems))

(* request and response of POST /api/exchanges and GET /api/exchanges/eligibility; *)
(* status 0: the request is still awaiting its insert                              *)
ExchangeReply(op, orderId, userId, e, error, status, inserted) ==
    [op |-> op, order_id |-> orderId, user_id |-> userId,
     eligible |-> e.eligible, reason |-> e.reason,
     existingExchangeId |-> e.existingExchangeId, daysRemaining |-> e.daysRemaining,
     error |-> error, status |-> status, inserted |-> inserted]

(* POST /api/exchanges up to the await of its insert; the body's item lists *)
(* are vOrig and vReq                                                       *)
ExchangePostCheckOn(users) ==
    \E order_id \in OrderIds, user_id \in users :
      \E first \in FirstRows(ExchangesOf(order_id, PostActiveStatuses)) :
        LET eligibility == checkEligibility(order_id, user_id, first, now)
            validation == validateSameProduct(vOrig, vReq)
        IN /\ UNCHANGED <<orders, exchanges, logs, carrierOrders, now, vOrig, vReq, creating, productImages, client>>
           /\ IF ~eligibility.eligible
              THEN /\ UNCHANGED inflight
                   /\ last' = ExchangeReply("exchange_post", order_id, user_id, eligibility,
                                            eligibility.reason, 400, NoId)
              ELSE IF ~validation.valid
              THEN /\ UNCHANGED inflight
                   /\ last' = ExchangeReply("exchange_post", order_id, user_id, eligibility,
                                            validation.error, 400, NoId)
              ELSE /\ BagCardinality(inflight) < MaxInflight
                   /\ inflight' = inflight (+) SetToBag({[order_id |-> order_id,
                                                          user_id |-> user_id]})
                   /\ last' = ExchangeReply("exchange_post", order_id, user_id, eligibility,
                                            NULL, 0, NoId)

NewExchangeRow(req) ==
    [order_id |-> req.order_id,
     user_id |-> req.user_id,
     original_items |-> vOrig,
     requested_items |-> vReq,
     status |-> "pending",
     tracking_number |-> NULL]

(* what a request that passed its eligibility check carries to its response *)
Passed == EligibilityResult(TRUE, NULL, NoId, NoDays)

(* the insert of a POST /api/exchanges request and its response *)
ExchangePostInsertOn(dbs) ==
    \E req \in BagToSet(inflight), dbOk \in dbs :
      /\ UNCHANGED <<orders, logs, carrierOrders, now, vOrig, vReq, creating, productImages, client>>
      /\ inflight' = inflight (-) SetToBag({req})
      /\ IF dbOk
         THEN /\ Len(exchanges) < MaxExchanges
              /\ exchanges' = Append(exchanges, NewExchangeRow(req))
              /\ last' = ExchangeReply("exchange_post", req.order_id, req.user_id,
                                       Passed, NULL, 200, Len(exchanges) + 1)
         ELSE /\ UNCHANGED exchanges
              /\ last' = ExchangeReply("exchange_post", req.order_id, req.user_id,
                                       Passed, "insert failed", 500, NoId)

GetActiveStatuses == {"pending", "awaiting_payment", "approved", "processing", "shipped"}

(* `${item.product_id}-${item.size}-${item.color}` *)
ItemKey(item) == <<item.product_id, "-", item.size, "-", item.color>>

RECURSIVE QuantityOf(_, _)
QuantityOf(items, key) ==
    IF items = <<>> THEN 0
    ELSE (IF ItemKey(Head(items)) = key THEN Head(items).quantity ELSE 0)
         + QuantityOf(Tail(items), key)

(* exchangedItemsMap.get(key) ?? 0 over the completed exchanges ids *)
RECURSIVE exchangedQty(_, _)
exchangedQty(ids, key) ==
    IF ids = {} THEN 0
    ELSE LET i == CHOOSE j \in ids : TRUE
         IN QuantityOf(exchanges[i].original_items, key) + exchangedQty(ids \ {i}, key)

allItemsExchanged(orderId) ==
    \A k \in DOMAIN orders[orderId].items :
        exchangedQty(ExchangesOf(orderId, {"completed"}), ItemKey(orders[orderId].items[k]))
            >= orders[orderId].items[k].quantity

(* the verdict of GET /api/exchanges/eligibility *)
eligibilityGET(orderId, userId, first, t) ==
    IF ~OrderOfUser(orderId, userId)
    THEN EligibilityResult(FALSE, "not_found", NoId, NoDays)
    ELSE IF ExchangesOf(orderId, GetActiveStatuses) # {}
    THEN EligibilityResult(FALSE, "active_exchange", first, NoDays)
    ELSE IF orders[orderId].order_status # "delivered"
    THEN EligibilityResult(FALSE, "not_delivered", NoId, NoDays)
    ELSE IF orders[orderId].payment_status # "paid"
    THEN EligibilityResult(FALSE, "not_paid", NoId, NoDays)
    ELSE IF orders[orderId].delivered_at = NoTime
    THEN EligibilityResult(FALSE, "no_delivery_date", NoId, NoDays)
    ELSE IF daysSinceDelivery(orders[orderId].delivered_at, t) > EXCHANGE_WINDOW_DAYS
    THEN EligibilityResult(FALSE, "window_expired", NoId, NoDays)
    ELSE IF ExchangesOf(orderId, {"completed"}) # {} /\ allItemsExchanged(orderId)
    THEN EligibilityResult(FALSE, "all_exchanged", NoId, NoDays)
    ELSE EligibilityResult(TRUE, NULL, NoId,
            EXCHANGE_WINDOW_DAYS - daysSinceDelivery(orders[orderId].delivered_at, t))

EligibilityRouteOn(users) ==
    \E orderId \in OrderIds, userId \in users :
      \E first \in FirstRows(ExchangesOf(orderId, GetActiveStatuses)) :
        /\ UNCHANGED <<orders, exchanges, logs, carrierOrders, inflight, now, vOrig, vReq, creating, productImages, client>>
        /\ last' = ExchangeReply("eligibility_get", orderId, userId,
                                 eligibilityGET(orderId, userId, first, now),
                                 NULL, 200, NoId)

AdminExchangeReply(op, id, status, code) ==
    [op |-> op, new_status |-> status, status |-> code]

(* the PUT's request and answer; hasReason: the body carried *)
(* rejection_reason or admin_notes                           *)
AdminExchangePutReply(id, status, tracking_number, hasReason, code) ==
    [op |-> "admin_exchange_put", id |-> id, new_status |-> status,
     tracking_number |-> tracking_number, hasReason |-> hasReason, status |-> code]

(* a PUT that marks a request shipped without asking for a tracking number *)
AdminExchangePutOn_NoTrackingCheck(statuses, trackings, reasons, dbs) ==
    \E id \in 1..MaxExchanges, status \in statuses, tracking_number \in trackings,
       hasReason \in reasons, dbOk \in dbs :
      /\ UNCHANGED <<orders, logs, carrierOrders, inflight, now, vOrig, vReq, creating, productImages, client>>
      /\ IF id \notin DOMAIN exchanges
         THEN /\ UNCHANGED exchanges
              /\ last' = AdminExchangePutReply(id, status, tracking_number, hasReason, 404)
         ELSE IF status = "rejected" /\ ~hasReason
         THEN /\ UNCHANGED exchanges
              /\ last' = AdminExchangePutReply(id, status, tracking_number, hasReason, 400)
         ELSE IF ~dbOk
         THEN /\ UNCHANGED exchanges
              /\ last' = AdminExchangePutReply(id, status, tracking_number, hasReason, 500)
         ELSE /\ exchanges' =
                    [exchanges EXCEPT
                        ![id].status = IF status = NULL THEN @ ELSE status,
                        ![id].tracking_number =
                            IF tracking_number = NULL THEN @ ELSE tracking_number]
              /\ last' = AdminExchangePutReply(id, status, tracking_number, hasReason, 200)

(* PUT /api/admin/exchanges; hasReason: rejection_reason or admin_notes is given *)
AdminExchangePutOn(statuses, trackings, reasons, dbs) ==
    \E id \in 1..MaxExchanges, status \in statuses, tracking_number \in trackings,
       hasReason \in reasons, dbOk \in dbs :
      /\ UNCHANGED <<orders, logs, carrierOrders, inflight, now, vOrig, vReq, creating, productImages, client>>
      /\ IF id \notin DOMAIN exchanges
         THEN /\ UNCHANGED exchanges
              /\ last' = AdminExchangePutReply(id, status, tracking_number, hasReason, 404)
         ELSE IF \/ status = "rejected" /\ ~hasReason
                 \/ /\ status = "shipped"
                    /\ tracking_number = NULL
                    /\ exchanges[id].tracking_number = NULL
         THEN /\ UNCHANGED exchanges
              /\ last' = AdminExchangePutReply(id, status, tracking_number, hasReason, 400)
         ELSE IF ~dbOk
         THEN /\ UNCHANGED exchanges
              /\ last' = AdminExchangePutReply(id, status, tracking_number, hasReason, 500)
         ELSE /\ exchanges' =
                    [exchanges EXCEPT
                        ![id].status = IF status = NULL THEN @ ELSE status,
                        ![id].tracking_number =
                            IF tracking_number = NULL THEN @ ELSE tracking_number]
              /\ last' = AdminExchangePutReply(id, status, tracking_number, hasReason, 200)

(* DELETE /api/admin/exchanges: cancels a pending or approved request *)
AdminExchangeDelete ==
    \E id \in 1..MaxExchanges :
      /\ UNCHANGED <<orders, logs, carrierOrders, inflight, now, vOrig, vReq, creating, productImages, client>>
      /\ IF id \notin DOMAIN exchanges
         THEN /\ UNCHANGED exchanges
              /\ last' = AdminExchangeReply("admin_exchange_delete", id, "cancelled", 404)
         ELSE IF exchanges[id].status \notin {"pending", "approved"}
         THEN /\ UNCHANGED exchanges
              /\ last' = AdminExchangeReply("admin_exchange_delete", id, "cancelled", 400)
         ELSE /\ exchanges' = [exchanges EXCEPT ![id].status = "cancelled"]
              /\ last' = AdminExchangeReply("admin_exchange_delete", id, "cancelled", 200)

(* the clock advances to the end of the exchange window, then by 12 hours *)
MaxNow == (EXCHANGE_WINDOW_DAYS + MaxDaysPast) * MS_PER_DAY

Tick ==
    \E step \in IF now < EXCHANGE_WINDOW_DAYS * MS_PER_DAY
                THEN {EXCHANGE_WINDOW_DAYS * MS_PER_DAY - now}
                ELSE {1} :
      /\ now + step <= MaxNow
      /\ now' = now + step
      /\ last' = NoRequest
      /\ UNCHANGED <<orders, exchanges, logs, carrierOrders, inflight, vOrig, vReq, creating, productImages, client>>

(* ------------------------------------------------------------------------ *)
(* POST /api/admin/fix-delivery-dates                                       *)
(* ------------------------------------------------------------------------ *)

FixActions == {"fix_single", "fix_all"}

(* a date later than every time the clock reaches *)
FutureDate == MaxNow + MS_PER_DAY

(* the body's deliveryDate: none, the clock's start, the day after now, *)
(* or a date far ahead                                                  *)
DeliveryDates == {Absent, 0, now + MS_PER_DAY, FutureDate}

FixReply(action, orderId, deliveryDate, fixed, status) ==
    [op |-> "fix_delivery_dates", action |-> action, order_id |-> orderId,
     deliveryDate |-> deliveryDate, fixed |-> fixed, status |-> status]

(* the columns fix_single writes: delivered_at, and shipped_at when the *)
(* order that was read has none                                         *)
fixSingleUpdates(order, timestamp) ==
    [delivered_at |-> timestamp,
     shipped_at |-> IF order.shipped_at = NoTime THEN timestamp ELSE order.shipped_at]

(* the rows fix_all selects *)
MissingDeliveryDates ==
    {o \in DOMAIN orders : orders[o].order_status = "delivered"
                           /\ orders[o].delivered_at = NoTime}

(* updated_at ?? created_at ?? now of a row: a time at which the row was *)
(* written, from the clock's start to now                                *)
FallbackDates == {0, now}

FixDeliveryDatesOn(orderIds, dates, dbs) ==
    \E action \in FixActions, orderId \in orderIds, deliveryDate \in dates,
       fallbackDate \in FallbackDates, dbOk \in dbs :
      /\ UNCHANGED <<exchanges, logs, carrierOrders, inflight, now, vOrig, vReq, creating, productImages, client>>
      /\ IF action = "fix_single"
         THEN IF orderId = NULL
              THEN /\ UNCHANGED orders
                   /\ last' = FixReply(action, orderId, deliveryDate, 0, 400)
              ELSE LET timestamp == IF deliveryDate = Absent THEN now ELSE deliveryDate
                   IN IF ~dbOk \/ orderId \notin DOMAIN orders
                      THEN /\ UNCHANGED orders
                           /\ last' = FixReply(action, orderId, deliveryDate, 0, 500)
                      ELSE /\ orders' = Update(orders, {orderId},
                                               fixSingleUpdates(orders[orderId], timestamp))
                           /\ last' = FixReply(action, orderId, deliveryDate, 1, 200)
         ELSE IF ~dbOk
              THEN /\ UNCHANGED orders
                   /\ last' = FixReply(action, NULL, Absent, 0, 500)
              ELSE /\ orders' = [o \in DOMAIN orders |->
                                    IF o \in MissingDeliveryDates
                                    THEN Update(orders, {o},
                                                fixSingleUpdates(orders[o], fallbackDate))[o]
                                    ELSE orders[o]]
                   /\ last' = FixReply(action, NULL, Absent,
                                       Cardinality(MissingDeliveryDates), 200)

FixDeliveryDates == FixDeliveryDatesOn(OrderIds \cup {NULL}, DeliveryDates, {TRUE})

ExchangePostCheck == ExchangePostCheckOn(Users)
ExchangePostInsert == ExchangePostInsertOn({TRUE})
EligibilityRoute == EligibilityRouteOn(Users)
AdminExchangePut ==
    AdminExchangePutOn({"approved", "rejected", "shipped", "completed"}, TrackingNumbers, {TRUE}, {TRUE})
(* PUT with every status, with and without tracking number and reason *)
AdminExchangePutAny ==
    AdminExchangePutOn(ExchangeStatuses \cup {NULL}, TrackingNumbers \cup {NULL}, BOOLEAN, BOOLEAN)

AdminOrderCancel == AdminOrderPutOn({"cancelled"}, {TRUE})

(* ------------------------------------------------------------------------ *)
(* Initial state and specification                                          *)
(* ------------------------------------------------------------------------ *)

(* ------------------------------------------------------------------------ *)
(* createShipRocketOrder as its callers run it: the read of the order row   *)
(* and the carrier call with the writes after it are separate awaited       *)
(* steps, so calls for the same order can interleave.                       *)
(* ------------------------------------------------------------------------ *)

MaxCreating == 2
MaxCreateLogs == 6

Callers == {"webhook", "verify_payment", "create_order_route"}

(* what the caller writes to the order before it calls createShipRocketOrder *)
BeforeCreate(caller, ords, o) ==
    CASE caller = "webhook" ->
           Update(ords, {o}, [payment_status |-> "paid", order_status |-> "confirmed"])
      [] caller = "verify_payment" ->
           updateOrderPayment(ords, o, [payment_status |-> "paid"])
      [] OTHER -> ords

CreateReply(op, caller, o, status) ==
    [op |-> op, caller |-> caller, order |-> o, status |-> status]

(* a caller reaches createShipRocketOrder, which reads the order row: *)
(* not yet synced, with items                                         *)
CreateOrderRead ==
    \E caller \in Callers, o \in DOMAIN orders :
      /\ caller \in {"webhook", "verify_payment"} => orders[o].razorpay_order_id # NULL
      /\ orders[o].shiprocket_order_id = NoId
      /\ Len(orders[o].items) > 0
      /\ BagCardinality(creating) < MaxCreating
      /\ orders' = BeforeCreate(caller, orders, o)
      /\ creating' = creating (+) SetToBag({[order_id |-> o, caller |-> caller]})
      /\ last' = CreateReply("create_order_read", caller, o, 0)
      /\ UNCHANGED <<exchanges, logs, carrierOrders, inflight, now, vOrig, vReq,
                     productImages, client>>

(* the call goes on: pending log, carrier call, order update, logs, AWB *)
CreateOrderCall ==
    \E c \in BagToSet(creating), env \in CreateEnvsOn({TRUE}) :
      LET r == createAfterRead(DB, c.order_id, env)
      IN  /\ BagCardinality(r.logs) <= MaxCreateLogs
          /\ \A o \in OrderIds : r.carrierOrders[o] <= MaxCarrierOrders
          /\ orders' = r.orders
          /\ logs' = r.logs
          /\ carrierOrders' = r.carrierOrders
          /\ creating' = creating (-) SetToBag({c})
          /\ last' = CreateReply("create_order_call", c.caller, c.order_id,
                                 IF r.ret = "throw" THEN 500 ELSE 200)
          /\ UNCHANGED <<exchanges, inflight, now, vOrig, vReq, productImages, client>>

(* ------------------------------------------------------------------------ *)
(* Carrier API client (lib/shiprocket/client.ts)                            *)
(*                                                                          *)
(* A token is represented by the time at which the login that returned it   *)
(* completed; NoTime stands for null. A login is a request to /auth/login   *)
(* whose reply arrives in a later step, so that the clock can advance and   *)
(* other requests can run while it is in flight.                            *)
(* ------------------------------------------------------------------------ *)

MaxAuths == 2
MaxClientNow == 40

(* 9 * 24 * 60 * 60 * 1000 ms *)
TokenLifetime == 9 * MS_PER_DAY

(* token = null, tokenExpiry = null *)
NewClient == [token |-> NoTime, tokenExpiry |-> NoTime, authenticating |-> 0]

(* a getToken that trusts any cached token *)
getToken_NoExpiry(c, t) ==
    IF c.token = NoTime \/ c.tokenExpiry = NoTime
    THEN [authenticate |-> TRUE, token |-> NoTime]
    ELSE [authenticate |-> FALSE, token |-> c.token]

(* getToken at time t: the cached token, or the decision to authenticate *)
getToken(c, t) ==
    IF c.token = NoTime \/ c.tokenExpiry = NoTime \/ t >= c.tokenExpiry
    THEN [authenticate |-> TRUE, token |-> NoTime]
    ELSE [authenticate |-> FALSE, token |-> c.token]

(* the fields authenticate assigns when /auth/login answers ok at time t; *)
(* when it does not, authenticate throws before assigning anything        *)
authenticate(c, t, ok) ==
    IF ok
    THEN [c EXCEPT !.token = t, !.tokenExpiry = t + TokenLifetime]
    ELSE c

ClientReply(op, token, cached) == [op |-> op, token |-> token, cached |-> cached]

(* request(): getToken finds a valid cached token and the request is sent *)
ClientRequestCached ==
    /\ ~getToken(client, now).authenticate
    /\ last' = ClientReply("carrier_request", getToken(client, now).token, TRUE)
    /\ UNCHANGED <<orders, exchanges, logs, carrierOrders, inflight, now, vOrig, vReq, creating, productImages, client>>

(* request(): getToken calls authenticate, which posts to /auth/login *)
ClientAuthStart ==
    /\ getToken(client, now).authenticate
    /\ client.authenticating < MaxAuths
    /\ client' = [client EXCEPT !.authenticating = @ + 1]
    /\ last' = ClientReply("authenticate", NoTime, FALSE)
    /\ UNCHANGED <<orders, exchanges, logs, carrierOrders, inflight, now, vOrig, vReq, creating, productImages>>

(* /auth/login answers: on ok the token returned by authenticate goes out *)
(* with the request; otherwise request() throws and nothing is sent       *)
ClientAuthFinish ==
    /\ client.authenticating > 0
    /\ \E ok \in BOOLEAN :
          /\ client' = [authenticate(client, now, ok) EXCEPT !.authenticating = @ - 1]
          /\ last' = IF ok
                     THEN ClientReply("carrier_request", authenticate(client, now, ok).token, FALSE)
                     ELSE ClientReply("auth_failed", NoTime, FALSE)
    /\ UNCHANGED <<orders, exchanges, logs, carrierOrders, inflight, now, vOrig, vReq, creating, productImages>>

(* the clock advances by 12 hours, or by 12 hours less than the lifetime *)
ClientTick ==
    \E step \in {1, TokenLifetime - 1} :
      /\ now + step <= MaxClientNow
      /\ now' = now + step
      /\ last' = NoRequest
      /\ UNCHANGED <<orders, exchanges, logs, carrierOrders, inflight, vOrig, vReq, creating, productImages, client>>

(* ------------------------------------------------------------------------ *)
(* Admin product editor: the image list (app/admin/ProductsManagement.tsx)  *)
(*                                                                          *)
(* Each handler is one step from the list it reads to the list it sets.     *)
(* ------------------------------------------------------------------------ *)

MaxImages == 3
ImageUrls == {"img1", "img2"}

ProductImage(url, order, primary) ==
    [image_url |-> url, display_order |-> order, is_primary |-> primary]

(* handleFileSelect without an image index: append the uploaded image *)
addImage(images, url) ==
    Append(images, ProductImage(url, Len(images), Len(images) = 0))

(* handleFileSelect with an image index: replace the url of that image *)
replaceImage(images, index, url) ==
    [images EXCEPT ![index].image_url = url]

(* indices are 1-based here; display_order keeps the source's 0-based value *)
moveImage(images, index, direction) ==
    LET targetIndex == IF direction = "up" THEN index - 1 ELSE index + 1
    IN  IF targetIndex < 1 \/ targetIndex > Len(images)
        THEN images
        ELSE [images EXCEPT
                ![index] = [images[targetIndex] EXCEPT !.display_order = index - 1],
                ![targetIndex] = [images[index] EXCEPT !.display_order = targetIndex - 1]]

(* filter out the image, renumber, and mark the first remaining one primary *)
removeImage(images, index) ==
    LET kept == [i \in 1..(Len(images) - 1) |->
                    IF i < index THEN images[i] ELSE images[i + 1]]
    IN  [i \in DOMAIN kept |->
            [kept[i] EXCEPT !.display_order = i - 1,
                            !.is_primary = IF i = 1 THEN TRUE ELSE @]]

setPrimaryImage(images, index) ==
    [i \in DOMAIN images |-> [images[i] EXCEPT !.is_primary = (i = index)]]

EditorReply(op, index) == [op |-> op, index |-> index]

(* an editor step sets the image list and touches nothing else *)
EditorStep(images, op, index) ==
    /\ productImages' = images
    /\ last' = EditorReply(op, index)
    /\ UNCHANGED <<orders, exchanges, logs, carrierOrders, inflight, now, vOrig, vReq, creating, client>>

HandleFileSelect ==
    \E url \in ImageUrls :
        \/ /\ Len(productImages) < MaxImages
           /\ EditorStep(addImage(productImages, url), "add_image", Len(productImages) + 1)
        \/ \E index \in DOMAIN productImages :
              EditorStep(replaceImage(productImages, index, url), "replace_image", index)

MoveImage ==
    \E index \in DOMAIN productImages, direction \in {"up", "down"} :
        EditorStep(moveImage(productImages, index, direction), "move_image", index)

RemoveImage ==
    \E index \in DOMAIN productImages :
        EditorStep(removeImage(productImages, index), "remove_image", index)

SetPrimaryImage ==
    \E index \in DOMAIN productImages :
        EditorStep(setPrimaryImage(productImages, index), "set_primary_image", index)

EmptyTable == [k \in {} |-> NULL]

Init ==
    /\ orders = EmptyTable
    /\ exchanges = <<>>
    /\ logs = EmptyBag
    /\ carrierOrders = [o \in OrderIds |-> 0]
    /\ inflight = EmptyBag
    /\ now = 0
    /\ last = NoRequest
    /\ client = NewClient
    /\ productImages = <<>>
    /\ creating = EmptyBag
    /\ vOrig = <<>>
    /\ vReq = <<>>

Next ==
    \/ Checkout
    \/ ShiprocketCreateOrderRoute
    \/ AdminShiprocket
    \/ RazorpayWebhook
    \/ VerifyPayment
    \/ CarrierWebhook
    \/ AdminOrderPut
    \/ AdminOrderPatch

Spec == Init /\ [][Next]_vars

(* the payment webhook on its own, with every kind of request *)
NextWebhook ==
    \/ Checkout
    \/ RazorpayWebhookAny

SpecWebhook == Init /\ [][NextWebhook]_vars

(* the carrier webhook on its own, with every kind of payload *)
NextCarrier ==
    \/ Checkout
    \/ CarrierWebhookAny

SpecCarrier == Init /\ [][NextCarrier]_vars


(* The payment path: checkout, payment webhook, verify-payment and the     *)
(* public shipment-creation route, with database and carrier failures      *)
RazorpayWebhookSigned ==
    RazorpayWebhookOn(EventBodies, [b \in EventBodies |-> SignedHeaders(b)], {TRUE}, BOOLEAN)

ShiprocketCreateOrderRouteAny == ShiprocketCreateOrderRouteOn(BOOLEAN)

NextPayment ==
    \/ Checkout
    \/ RazorpayWebhookSigned
    \/ VerifyPaymentAny
    \/ ShiprocketCreateOrderRouteAny

SpecPayment == Init /\ [][NextPayment]_vars

(* AWB generation with every courier list the carrier can report *)
NextCourier ==
    \/ Checkout
    \/ AdminShiprocketCouriers

SpecCourier == Init /\ [][NextCourier]_vars

(* The exchange workflow on an order that was placed, paid or not, and      *)
(* shipped or delivered; the request body swaps size S for M on all or half *)
(* of the ordered quantity.                                                 *)
OrderedItems == <<Item(1, "S", "red", 2)>>

InitExchange ==
    /\ \E order_status \in {"shipped", "delivered"}, payment_status \in {"pending", "paid"},
          delivered_at \in {NoTime, 0} :
         orders = [o \in OrderIds |->
                     [NewOrderRow("u1", OrderedItems, "cod", NULL) EXCEPT
                         !.order_status = order_status,
                         !.payment_status = payment_status,
                         !.delivered_at = delivered_at]]
    /\ exchanges = <<>>
    /\ logs = EmptyBag
    /\ carrierOrders = [o \in OrderIds |-> 0]
    /\ inflight = EmptyBag
    /\ now = 0
    /\ last = NoRequest
    /\ client = NewClient
    /\ productImages = <<>>
    /\ creating = EmptyBag
    /\ vOrig \in {OrderedItems, <<Item(1, "S", "red", 1)>>}
    /\ vReq = [i \in DOMAIN vOrig |-> [vOrig[i] EXCEPT !.size = "M"]]

NextExchange ==
    \/ Tick
    \/ ExchangePostCheck
    \/ ExchangePostInsert
    \/ EligibilityRoute
    \/ AdminExchangePut
    \/ AdminExchangeDelete
    \/ AdminOrderCancel

SpecExchange == InitExchange /\ [][NextExchange]_vars

(* The exchange window of orders whose delivery date the admin can fix. *)
NextFixDelivery ==
    \/ Tick
    \/ ExchangePostCheck
    \/ ExchangePostInsert
    \/ EligibilityRoute
    \/ FixDeliveryDates

SpecFixDelivery == InitExchange /\ [][NextFixDelivery]_vars

(* The same-product validator on every pair of item lists of bounded length, *)
(* submitted for a delivered, paid order by its owner.                       *)
ItemLists == UNION {[1..n -> Items] : n \in 0..MaxItems}

InitValidate ==
    /\ orders = [o \in OrderIds |->
                    [NewOrderRow("u1", OrderedItems, "cod", NULL) EXCEPT
                        !.order_status = "delivered",
                        !.payment_status = "paid",
                        !.delivered_at = 0]]
    /\ exchanges = <<>>
    /\ logs = EmptyBag
    /\ carrierOrders = [o \in OrderIds |-> 0]
    /\ inflight = EmptyBag
    /\ now = 0
    /\ last = NoRequest
    /\ client = NewClient
    /\ productImages = <<>>
    /\ creating = EmptyBag
    /\ vOrig \in ItemLists
    /\ vReq \in ItemLists

NextValidate ==
    \/ ExchangePostCheckOn({"u1"})
    \/ ExchangePostInsertOn(BOOLEAN)

SpecValidate == InitValidate /\ [][NextValidate]_vars

(* ------------------------------------------------------------------------ *)
(* Properties                                                               *)
(* ------------------------------------------------------------------------ *)

(* the carrier client on its own *)
NextClient ==
    \/ ClientTick
    \/ ClientRequestCached
    \/ ClientAuthStart
    \/ ClientAuthFinish

SpecClient == Init /\ [][NextClient]_vars

(* the product editor on its own, opened on a new product *)
NextImages ==
    \/ HandleFileSelect
    \/ MoveImage
    \/ RemoveImage
    \/ SetPrimaryImage

SpecImages == Init /\ [][NextImages]_vars

(* shipment creation with its calls interleaving *)
NextCreate ==
    \/ Checkout
    \/ CreateOrderRead
    \/ CreateOrderCall

SpecCreate == Init /\ [][NextCreate]_vars

(* order status updates over time: the carrier webhook and the admin *)
(* single and bulk updates, with the clock advancing                 *)
NextDelivery ==
    \/ Checkout
    \/ Tick
    \/ CarrierWebhook
    \/ AdminOrderPut
    \/ AdminOrderPatch

SpecDelivery == Init /\ [][NextDelivery]_vars

(* the carrier webhook and the admin updates that set a status *)
NextStatus ==
    \/ Checkout
    \/ Tick
    \/ CarrierWebhook
    \/ AdminOrderStatusPut
    \/ AdminOrderPatch

SpecStatus == Init /\ [][NextStatus]_vars

(* the admin's exchange updates, with every kind of PUT body *)
NextAdminExchange ==
    \/ ExchangePostCheck
    \/ ExchangePostInsert
    \/ AdminExchangePutAny
    \/ AdminExchangeDelete

SpecAdminExchange == InitExchange /\ [][NextAdminExchange]_vars

DbUnchanged == UNCHANGED <<orders, exchanges, logs, carrierOrders>>

(* the request of the step is a payment webhook whose signature header is *)
(* not the HMAC of its body under the webhook secret                      *)
BadSignatureStep ==
    /\ last'.op = "razorpay_webhook"
    /\ last'.signature # Hmac(WEBHOOK_SECRET, last'.body)

(* C1 as stated: a payment webhook whose signature does not match its     *)
(* body is answered 401 and writes nothing, whatever its event type       *)
C1_BadSignatureIs401 ==
    [][BadSignatureStep => (last'.status = 401 /\ last'.calls = 0 /\ DbUnchanged)]_vars

(* C1 amended: a payment webhook whose signature does not match its body  *)
(* writes nothing, whatever its event type, and is answered 400 when the  *)
(* signature header is missing or empty, 500 when no webhook secret is    *)
(* configured, and 401 otherwise                                          *)
C1_BadSignatureWritesNothing ==
    [][BadSignatureStep =>
          /\ DbUnchanged
          /\ last'.calls = 0
          /\ last'.status = IF last'.signature \in {NoHeader, EmptyHeader} THEN 400
                            ELSE IF ~last'.secretSet THEN 500
                            ELSE 401]_vars

(* a payment.captured request for an unpaid order, signed with another key, was refused *)
C1_Witness ==
    /\ last.op = "razorpay_webhook"
    /\ last.status = 401
    /\ last.body.event = "payment.captured"
    /\ last.signature = Hmac("attacker_key", last.body)
    /\ \E o \in DOMAIN orders :
          /\ orders[o].razorpay_order_id = last.body.order_id
          /\ orders[o].payment_status = "pending"

(* C2: the row checkout creates is confirmed with a fee of 100 for cash   *)
(* on delivery, pending with no fee for razorpay, and unpaid in both cases *)
C2_CheckoutRow ==
    (last.op = "checkout" /\ last.ok) =>
        /\ last.order \in DOMAIN orders
        /\ orders[last.order].payment_method = last.method
        /\ orders[last.order].payment_status = "pending"
        /\ last.method = "cod" =>
              /\ orders[last.order].order_status = "confirmed"
              /\ orders[last.order].cod_charge = 100
        /\ last.method = "razorpay" =>
              /\ orders[last.order].order_status = "pending"
              /\ orders[last.order].cod_charge = 0

C2_Witness ==
    /\ last.op = "checkout" /\ last.ok /\ last.method = "cod"
    /\ orders[last.order].cod_charge = 100

(* the statuses claims C4 and C7 call non-terminal *)
NonTerminalStatuses == {"pending", "approved", "shipped"}

(* C4 as stated: in every reachable state each order has at most one      *)
(* exchange request whose status is pending, approved or shipped          *)
C4_OneActiveExchange ==
    \A o \in OrderIds : Cardinality(ExchangesOf(o, NonTerminalStatuses)) <= 1

(* l is the outcome of an eligibility decision: the GET endpoint's reply, *)
(* or a POST that was refused (400) or went on to its insert (0)          *)
IsExchangeCheck(l) ==
    \/ l.op = "eligibility_get"
    \/ l.op = "exchange_post" /\ l.status \in {0, 400}

(* the order is the user's, delivered, paid, and has a delivery date *)
Qualifies(orderId, userId) ==
    /\ orderId \in DOMAIN orders
    /\ orders[orderId].user_id = userId
    /\ orders[orderId].order_status = "delivered"
    /\ orders[orderId].payment_status = "paid"
    /\ orders[orderId].delivered_at # NoTime

(* C5: eligibility is granted only for an order that is the requesting    *)
(* user's, delivered, paid and has a recorded delivered_at; a POST for    *)
(* any other order is answered 400 and inserts nothing, and a row is      *)
(* inserted only for a request whose check granted eligibility            *)
C5_OnlyQualifyingOrders ==
    [][/\ IsExchangeCheck(last') =>
            /\ last'.eligible => Qualifies(last'.order_id, last'.user_id)
            /\ (last'.op = "exchange_post" /\ ~Qualifies(last'.order_id, last'.user_id)) =>
                    (last'.status = 400 /\ UNCHANGED <<exchanges, inflight>>)
       /\ exchanges' # exchanges /\ Len(exchanges') > Len(exchanges) =>
            \E req \in BagToSet(inflight) :
                /\ exchanges' = Append(exchanges, NewExchangeRow(req))
                /\ inflight' = inflight (-) SetToBag({req})]_vars

(* the owner's POST for a delivered but unpaid order was refused *)
C5_Witness ==
    /\ last.op = "exchange_post" /\ last.status = 400 /\ ~last.eligible
    /\ orders[last.order_id].user_id = last.user_id
    /\ orders[last.order_id].order_status = "delivered"
    /\ orders[last.order_id].payment_status = "pending"
    /\ orders[last.order_id].delivered_at # NoTime
    /\ exchanges = <<>>

(* C6 as stated: when delivered_at lies more than 30 x 24 hours before    *)
(* the check, eligibility is false and the POST creates nothing           *)
C6_WindowIs30Days ==
    (/\ IsExchangeCheck(last)
     /\ last.order_id \in DOMAIN orders
     /\ orders[last.order_id].delivered_at # NoTime
     /\ now - orders[last.order_id].delivered_at > 30 * MS_PER_DAY)
        => /\ ~last.eligible
           /\ last.op = "exchange_post" => last.status = 400

(* C7 as stated: while an order has a pending, approved or shipped        *)
(* exchange request, every eligibility decision for it is negative and    *)
(* names an existing request, and a POST gets 400 and inserts nothing     *)
C7_ActiveExchangeBlocks ==
    [][(IsExchangeCheck(last') /\ ExchangesOf(last'.order_id, NonTerminalStatuses) # {}) =>
            /\ ~last'.eligible
            /\ last'.existingExchangeId \in ExchangesOf(last'.order_id, NonTerminalStatuses)
            /\ last'.op = "exchange_post" =>
                    (last'.status = 400 /\ UNCHANGED <<exchanges, inflight>>)]_vars

(* C7 amended: while an order has a pending, approved or shipped exchange *)
(* request, every eligibility decision asked for it by the order's owner  *)
(* is negative and names an existing request, and the owner's POST gets   *)
(* 400 and inserts nothing, whatever the order's delivery and payment     *)
(* state; for any other user the order is reported as not found           *)
C7_ActiveExchangeBlocksOwner ==
    [][(IsExchangeCheck(last') /\ ExchangesOf(last'.order_id, NonTerminalStatuses) # {}) =>
            /\ ~last'.eligible
            /\ IF OrderOfUser(last'.order_id, last'.user_id)
               THEN last'.existingExchangeId \in ExchangesOf(last'.order_id, NonTerminalStatuses)
               ELSE last'.reason = "not_found" /\ last'.existingExchangeId = NoId
            /\ last'.op = "exchange_post" =>
                    (last'.status = 400 /\ UNCHANGED <<exchanges, inflight>>)]_vars

(* the owner's POST for an order that was cancelled after its exchange    *)
(* request was made is refused with that request's id                     *)
C7_Witness ==
    /\ last.op = "exchange_post" /\ last.status = 400
    /\ orders[last.order_id].user_id = last.user_id
    /\ orders[last.order_id].order_status = "cancelled"
    /\ last.existingExchangeId \in ExchangesOf(last.order_id, NonTerminalStatuses)

(* for every order item, the completed exchanges cover its quantity *)
FullyExchanged(orderId) ==
    /\ ExchangesOf(orderId, {"completed"}) # {}
    /\ \A k \in DOMAIN orders[orderId].items :
          exchangedQty(ExchangesOf(orderId, {"completed"}), ItemKey(orders[orderId].items[k]))
              >= orders[orderId].items[k].quantity

(* C8 as stated: the POST's check and the GET endpoint give the same      *)
(* verdict in every state, and no exchange request is created for an      *)
(* order that is fully exchanged                                          *)
C8_SameVerdictNoRepeat ==
    [][/\ \A o \in OrderIds, u \in Users :
            checkEligibility(o, u, NoId, now).eligible = eligibilityGET(o, u, NoId, now).eligible
       /\ Len(exchanges') > Len(exchanges) =>
            ~FullyExchanged(exchanges'[Len(exchanges')].order_id)]_vars

(* C9: validateSameProduct accepts exactly the pairs of lists of equal    *)
(* length whose paired items have the same product_id and quantity and a  *)
(* different size or color; for every other pair the POST answers 400     *)
(* and no exchange request is ever inserted                               *)
C9_ValidatorExact ==
    /\ validateSameProduct(vOrig, vReq).valid <=>
          /\ Len(vOrig) = Len(vReq)
          /\ \A i \in DOMAIN vOrig :
                /\ vOrig[i].product_id = vReq[i].product_id
                /\ vOrig[i].quantity = vReq[i].quantity
                /\ vOrig[i].size # vReq[i].size \/ vOrig[i].color # vReq[i].color
    /\ (\/ Len(vOrig) # Len(vReq)
        \/ \E i \in DOMAIN vOrig :
              \/ vOrig[i].product_id # vReq[i].product_id
              \/ vOrig[i].quantity # vReq[i].quantity
              \/ vOrig[i].size = vReq[i].size /\ vOrig[i].color = vReq[i].color)
          => /\ exchanges = <<>>
             /\ inflight = EmptyBag
             /\ last.op = "exchange_post" => last.status = 400

(* a request that changes only the quantity of its second item was refused *)
C9_Witness ==
    /\ last.op = "exchange_post" /\ last.status = 400 /\ last.eligible
    /\ last.error = "Quantity cannot be changed."
    /\ Len(vOrig) = 2 /\ Len(vReq) = 2
    /\ vOrig[1].size # vReq[1].size
    /\ vOrig[2].product_id = vReq[2].product_id
    /\ vOrig[2].quantity # vReq[2].quantity
    /\ exchanges = <<>>

(* position of a status in pending < confirmed < ... < delivered, 0 for the others *)
Rank(st) ==
    CASE st = "pending" -> 1
      [] st = "confirmed" -> 2
      [] st = "processing" -> 3
      [] st = "ready_to_ship" -> 4
      [] st = "shipped" -> 5
      [] st = "out_for_delivery" -> 6
      [] st = "delivered" -> 7
      [] OTHER -> 0

(* C3 as stated: no step moves an order's status backward in              *)
(* pending < confirmed < processing < ready_to_ship < shipped <           *)
(* out_for_delivery < delivered                                           *)
C3_StatusMonotone ==
    [][\A o \in DOMAIN orders :
          (Rank(orders[o].order_status) > 0 /\ Rank(orders'[o].order_status) > 0)
              => Rank(orders'[o].order_status) >= Rank(orders[o].order_status)]_vars

(* the status the lookup table of claim C10 gives a carrier status string *)
C10_ClaimedStatus(raw) ==
    CASE raw = "PICKUP SCHEDULED" -> "ready_to_ship"
      [] raw \in {"PICKED UP", "IN TRANSIT", "in transit"} -> "shipped"
      [] raw = "OUT FOR DELIVERY" -> "out_for_delivery"
      [] raw \in {"DELIVERED", "Delivered"} -> "delivered"
      [] raw = "RTO DELIVERED" -> "returned"
      [] raw = "CANCELLED" -> "cancelled"
      [] raw = "LOST" -> "lost"
      [] raw = "DAMAGED" -> "damaged"
      [] OTHER -> "processing"

(* C10 as stated: after a carrier webhook the order's status is the one   *)
(* the claimed table gives the payload's status, processing by default    *)
C10_StatusPerClaimedTable ==
    (last.op = "carrier_webhook" /\ last.status = 200) =>
        orders[last.order].order_status = C10_ClaimedStatus(last.raw)

(* C10 amended: the table also maps RTO IN TRANSIT to return_in_transit;  *)
(* every other string, and an absent status, maps to processing           *)
C10_StatusPerTable ==
    (last.op = "carrier_webhook" /\ last.status = 200) =>
        orders[last.order].order_status =
            IF last.raw = "RTO IN TRANSIT" THEN "return_in_transit"
            ELSE C10_ClaimedStatus(last.raw)

(* a mixed-case status was accepted and mapped *)
C10_Witness ==
    /\ last.op = "carrier_webhook" /\ last.status = 200
    /\ last.raw = "Delivered"
    /\ orders[last.order].order_status = "delivered"

(* C11: when AWB generation reaches the carrier and the courier check     *)
(* reported a non-empty list, the courier id sent in the AWB assignment   *)
(* request is the id of a listed courier whose rate is minimal            *)
C11_CheapestCourier ==
    (/\ last.op = "admin_shiprocket" /\ last.action = "generate_awb" /\ last.calls > 0
     /\ last.couriers.ok
     /\ Len(last.couriers.available_courier_companies) > 0)
        => \E i \in DOMAIN last.couriers.available_courier_companies :
              /\ last.couriers.available_courier_companies[i].courier_company_id
                    = last.awbPayload.courier_id
              /\ \A j \in DOMAIN last.couriers.available_courier_companies :
                    last.couriers.available_courier_companies[i].rate
                        <= last.couriers.available_courier_companies[j].rate

(* the cheaper courier came second in the carrier's list and was chosen *)
C11_Witness ==
    /\ last.op = "admin_shiprocket" /\ last.action = "generate_awb" /\ last.calls > 0
    /\ Len(last.couriers.available_courier_companies) = 2
    /\ last.couriers.available_courier_companies[1].rate
          > last.couriers.available_courier_companies[2].rate
    /\ last.awbPayload.courier_id
          = last.couriers.available_courier_companies[2].courier_company_id

(* C12 as stated: in every state a razorpay order whose status is         *)
(* confirmed or a later shipment status has payment_status = paid         *)
C12_ConfirmedOnlyIfPaid ==
    \A o \in DOMAIN orders :
        (orders[o].payment_method = "razorpay" /\ Rank(orders[o].order_status) >= 2)
            => orders[o].payment_status = "paid"

(* the signature of the verify-payment request l verifies under the key secret *)
SignatureValid(l) ==
    verifyRazorpaySignature(l.rzp, l.payment_id, l.signature, KEY_SECRET)

(* C13: verify-payment calls the carrier or writes only after the          *)
(* signature has verified and the order update to paid has succeeded; a    *)
(* request whose signature is invalid makes no carrier call, writes        *)
(* nothing and fails (400 once it has passed the rate limit, body and key  *)
(* checks), and one whose order update fails gets 500 without a carrier    *)
(* call or a write                                                         *)
C13_CreateOnlyAfterPaid ==
    [][last'.op = "verify_payment" =>
          /\ (last'.calls > 0 \/ last'.create # "none" \/ ~DbUnchanged) =>
                /\ SignatureValid(last')
                /\ last'.updated
                /\ orders'[last'.order].payment_status = "paid"
          /\ ~SignatureValid(last') =>
                /\ last'.status \in {400, 429, 500}
                /\ last'.pre = "ok" => last'.status = 400
          /\ (last'.pre = "ok" /\ SignatureValid(last') /\ ~last'.updated) =>
                last'.status = 500]_vars

(* a correctly signed request whose order update failed got 500 and the   *)
(* order is still unpaid and unshipped                                    *)
C13_Witness ==
    /\ last.op = "verify_payment" /\ last.pre = "ok" /\ SignatureValid(last)
    /\ ~last.updated /\ last.status = 500 /\ last.calls = 0
    /\ last.order \in DOMAIN orders
    /\ orders[last.order].payment_status = "pending"
    /\ orders[last.order].shiprocket_order_id = NoId

(* C14: once the signature is valid and the order is updated to paid, the *)
(* response is a success whatever createShipRocketOrder did, and the      *)
(* order is paid                                                          *)
C14_PaidIsSuccess ==
    (last.op = "verify_payment" /\ last.pre = "ok" /\ SignatureValid(last) /\ last.updated)
        => /\ last.status = 200
           /\ last.create \in {"throw", "synced", "created"}
           /\ orders[last.order].payment_status = "paid"

(* shipment creation threw, the response is still a success and the order is paid *)
C14_Witness ==
    /\ last.op = "verify_payment" /\ last.status = 200 /\ last.create = "throw"
    /\ orders[last.order].payment_status = "paid"
    /\ orders[last.order].shiprocket_order_id = NoId

(* the step handles a correctly signed payment.captured event for an      *)
(* order that exists                                                      *)
CapturedStep ==
    /\ last'.op = "razorpay_webhook"
    /\ last'.status \in {200, 500}
    /\ last'.signature = Hmac(WEBHOOK_SECRET, last'.body)
    /\ last'.body.event = "payment.captured"
    /\ OrdersByRazorpayId(orders, last'.body.order_id) # {}

(* the order a payment.captured event is about *)
CapturedOrder == CHOOSE o \in OrdersByRazorpayId(orders, last'.body.order_id) : TRUE

(* the step appended rows to the order's log: createShipRocketOrder ran *)
CreationAttempted == logs' # logs

(* the step appended a create_order error row: createShipRocketOrder threw *)
CreationFailed ==
    CopiesIn(LogRow(CapturedOrder, "create_order", "error"), logs')
        > CopiesIn(LogRow(CapturedOrder, "create_order", "error"), logs)

ServiceCreateEnvs == CreateEnvsOn(BOOLEAN)
ServiceAwbEnvs == AwbEnvsOn(BOOLEAN)
ServicePickupEnvs == PickupEnvsOn(BOOLEAN)

(* the service call with result r appended a row of this action and *)
(* status for order o, with an error message exactly on an error row *)
Appended(db, r, o, action, status) ==
    LET row == [order_id |-> o, action |-> action, status |-> status,
                error_message |-> (status = "error")]
    IN  CopiesIn(row, r.logs) > CopiesIn(row, db.logs)

Outcome(ok) == IF ok THEN "success" ELSE "error"

(* in the database state db every interaction with the carrier API is logged *)
InteractionsLogged(db) ==
    \A o \in OrderIds :
        /\ \A env \in ServiceCreateEnvs :
              LET r == createShipRocketOrder(db, o, env)
              IN  /\ r.calls > 0 =>
                        Appended(db, r, o, "create_order", Outcome(env.api = "ok"))
                  /\ r.calls > 1 =>
                        Appended(db, r, o, "generate_awb", Outcome(env.awb.awb = "ok"))
        /\ \A env \in ServiceAwbEnvs :
              LET r == generateAWBForOrder(db, o, env)
              IN  r.calls > 0 => Appended(db, r, o, "generate_awb", Outcome(env.awb = "ok"))
        /\ \A env \in ServicePickupEnvs :
              LET r == schedulePickupForOrder(db, o, env)
              IN  r.calls > 0 => Appended(db, r, o, "schedule_pickup", Outcome(env.api = "ok"))

(* C16: in every database state the handlers reach, a create-order, AWB   *)
(* or pickup call of the order service that talks to the carrier API      *)
(* appends a shiprocket_logs row for the order with status success when   *)
(* the carrier call succeeded and status error with an error message when *)
(* it failed; and every step of every handler keeps the rows that were in *)
(* shiprocket_logs, unchanged                                             *)
C16_InteractionsLogged ==
    /\ []InteractionsLogged(DB)
    /\ [][logs \sqsubseteq logs']_vars

(* a pickup that the carrier refused is in the log next to the rows of the *)
(* order's creation                                                        *)
C16_Witness ==
    /\ last.op = "admin_shiprocket" /\ last.action = "schedule_pickup"
    /\ last.status = 500 /\ last.calls = 1
    /\ CopiesIn(LogRow(last.order, "schedule_pickup", "error"), logs) = 1
    /\ CopiesIn(LogRow(last.order, "create_order", "success"), logs) = 1

(* C17: whenever the carrier accepts the create-order call and the update *)
(* of the orders row then fails, createShipRocketOrder appends a          *)
(* create_order row with status success, returns success and leaves the   *)
(* order without shiprocket_order_id                                      *)
C17_SuccessLogWithoutUpdate ==
    \A o \in OrderIds, env \in ServiceCreateEnvs :
        LET r == createShipRocketOrder(DB, o, env)
        IN  (env.api = "ok" /\ ~env.updOk /\ r.calls > 0) =>
                /\ r.ret = "created"
                /\ Appended(DB, r, o, "create_order", "success")
                /\ r.orders[o].shiprocket_order_id = NoId

(* the create-order route answered success and logged it, and the order *)
(* still has no shiprocket_order_id                                     *)
C17_Witness ==
    /\ last.op = "shiprocket_create_order" /\ last.status = 200 /\ last.calls > 0
    /\ CopiesIn(LogRow(last.order, "create_order", "success"), logs) > 0
    /\ orders[last.order].shiprocket_order_id = NoId

(* C18: getToken hands out the cached token only when a token is cached   *)
(* and the clock is strictly before the expiry, which lies 9 days after   *)
(* the login that returned the token, and a login is started only when    *)
(* that is not the case; every request goes out with a token obtained at  *)
(* most 9 days before; a failed login leaves token and expiry as they were *)
C18_TokenRefreshedBeforeExpiry ==
    [][/\ (last'.op = "carrier_request" /\ last'.cached) =>
              /\ client.token # NoTime
              /\ client.tokenExpiry = client.token + TokenLifetime
              /\ now < client.tokenExpiry
              /\ last'.token = client.token
       /\ last'.op = "authenticate" =>
              ~(client.token # NoTime /\ client.tokenExpiry # NoTime /\ now < client.tokenExpiry)
       /\ last'.op = "carrier_request" =>
              /\ last'.token # NoTime
              /\ now - last'.token <= TokenLifetime
       /\ last'.op = "auth_failed" =>
              /\ client'.token = client.token
              /\ client'.tokenExpiry = client.tokenExpiry]_vars

(* a request went out with the cached token 12 hours before its expiry; *)
(* the token came from a login that completed after the clock had moved *)
C18_Witness ==
    /\ last.op = "carrier_request" /\ last.cached
    /\ now = client.tokenExpiry - 1
    /\ client.token > 0

(* the status changes the exchange workflow names *)
ExchangeTransitions ==
    {<<"pending", "approved">>, <<"pending", "rejected">>,
     <<"approved", "shipped">>, <<"shipped", "completed">>}

(* C19: every change of an exchange request's status is one of            *)
(* pending -> approved, pending -> rejected, approved -> shipped,         *)
(* shipped -> completed, or a change to cancelled                         *)
C19_OnlyWorkflowTransitions ==
    [][\A i \in DOMAIN exchanges :
          exchanges'[i].status # exchanges[i].status =>
              \/ <<exchanges[i].status, exchanges'[i].status>> \in ExchangeTransitions
              \/ exchanges'[i].status = "cancelled"]_vars

PrimaryImages == {i \in DOMAIN productImages : productImages[i].is_primary}

(* C20: whenever the editor's image list is non-empty, exactly one of its *)
(* images has is_primary = true                                           *)
C20_ExactlyOnePrimary ==
    productImages # <<>> => Cardinality(PrimaryImages) = 1

(* C21: when the carrier accepted the create-order call and the AWB       *)
(* generation then fails, createShipRocketOrder returns success and the   *)
(* order has the shiprocket_order_id the update wrote; and a failing      *)
(* generateAWBForOrder returns null (it does not throw), appends a        *)
(* generate_awb row with status error and changes no order                *)
C21_AwbFailureNotFatal ==
    \A o \in OrderIds :
        /\ \A env \in ServiceCreateEnvs :
              LET r == createShipRocketOrder(DB, o, env)
              IN  (r.calls > 1 /\ env.awb.awb # "ok") =>
                      /\ r.ret = "created"
                      /\ r.carrierOrders[o] = carrierOrders[o] + 1
                      /\ env.updOk => r.orders[o].shiprocket_order_id = r.carrierOrders[o]
                      /\ Appended(DB, r, o, "generate_awb", "error")
                      /\ r.orders[o].awb_number = orders[o].awb_number
        /\ \A env \in ServiceAwbEnvs :
              LET r == generateAWBForOrder(DB, o, env)
              IN  (r.calls > 0 /\ env.awb # "ok") =>
                      /\ r.ret = "null"
                      /\ Appended(DB, r, o, "generate_awb", "error")
                      /\ r.orders = orders

(* the create-order route answered success for an order that now has its  *)
(* carrier ids but no AWB, with the AWB failure in the log                *)
C21_Witness ==
    /\ last.op = "shiprocket_create_order" /\ last.status = 200 /\ last.calls > 1
    /\ orders[last.order].shiprocket_order_id # NoId
    /\ orders[last.order].awb_number = NULL
    /\ CopiesIn(LogRow(last.order, "generate_awb", "error"), logs) > 0

(* C22: an order whose pickup has been scheduled has a shipment id and an *)
(* AWB number; and schedulePickupForOrder on an order without a shipment  *)
(* id makes no carrier call, throws and appends a schedule_pickup error   *)
(* row                                                                    *)
C22_PickupAfterShipmentAndAwb ==
    \A o \in DOMAIN orders :
        /\ orders[o].pickup_scheduled_date # NoTime =>
              /\ orders[o].shiprocket_shipment_id # NoId
              /\ orders[o].awb_number # NULL
        /\ orders[o].shiprocket_shipment_id = NoId =>
              \A env \in ServicePickupEnvs :
                  LET r == schedulePickupForOrder(DB, o, env)
                  IN  /\ r.calls = 0
                      /\ r.ret = "throw"
                      /\ Appended(DB, r, o, "schedule_pickup", "error")

(* C23: createShipRocketOrder on an order that already has a              *)
(* shiprocket_order_id returns success without a carrier call, without    *)
(* changing any order and without a log row; generateAWBForOrder on an    *)
(* order that already has an awb_number returns the existing number       *)
(* without a carrier call                                                 *)
C23_SyncedIsIdempotent ==
    \A o \in DOMAIN orders :
        /\ orders[o].shiprocket_order_id # NoId =>
              \A env \in ServiceCreateEnvs :
                  LET r == createShipRocketOrder(DB, o, env)
                  IN  /\ r.ret = "synced"
                      /\ r.calls = 0
                      /\ r.orders = orders
                      /\ r.logs = logs
                      /\ r.carrierOrders = carrierOrders
        /\ orders[o].awb_number # NULL =>
              \A env \in ServiceAwbEnvs :
                  LET r == generateAWBForOrder(DB, o, env)
                  IN  /\ r.ret = "existing"
                      /\ r.calls = 0
                      /\ r.orders = orders

(* the create-order route was called again for an order that is synced *)
(* and has its AWB, and answered success without a carrier call        *)
C23_Witness ==
    /\ last.op = "shiprocket_create_order" /\ last.status = 200 /\ last.calls = 0
    /\ orders[last.order].shiprocket_order_id # NoId
    /\ orders[last.order].awb_number # NULL
    /\ carrierOrders[last.order] = 1

(* C24: the carrier holds at most one order for each store order *)
C24_OneCarrierOrder ==
    \A o \in OrderIds : carrierOrders[o] <= 1

C26_DeliveredAtWrittenOnce ==
    [][\A o \in DOMAIN orders :
          orders[o].delivered_at # NoTime =>
              orders'[o].delivered_at = orders[o].delivered_at]_vars

(* C27: an order with order_status delivered has a delivered_at and an *)
(* order with order_status shipped has a shipped_at                    *)
C27_StatusHasTimestamp ==
    \A o \in DOMAIN orders :
        /\ orders[o].order_status = "delivered" => orders[o].delivered_at # NoTime
        /\ orders[o].order_status = "shipped" => orders[o].shipped_at # NoTime

(* the admin PUT marked delivered, later than the clock's start, an order *)
(* that was never shipped                                                 *)
C27_Witness ==
    /\ last.op = "admin_order_put" /\ last.order_status = "delivered" /\ last.status = 200
    /\ now > 0
    /\ \E o \in last.ids :
          /\ orders[o].order_status = "delivered"
          /\ orders[o].delivered_at = now
          /\ orders[o].shipped_at = NoTime

(* the PUT of this step asks for shipped while neither its body nor the *)
(* request has a tracking number, or for rejected without reason or     *)
(* notes                                                                *)
WouldViolate ==
    /\ last'.op = "admin_exchange_put"
    /\ last'.id \in DOMAIN exchanges
    /\ \/ last'.new_status = "rejected" /\ ~last'.hasReason
       \/ /\ last'.new_status = "shipped"
          /\ last'.tracking_number = NULL
          /\ exchanges[last'.id].tracking_number = NULL

WindowComputed ==
    /\ last.op \in {"eligibility_get", "exchange_post"}
    /\ last.eligible
    /\ last.daysRemaining # NoDays

(* C29: whenever exchange eligibility is granted, the reported            *)
(* daysRemaining lies between 0 and 30 and equals 30 minus the whole      *)
(* number of days elapsed since the order's delivered_at                  *)
C29_DaysRemainingInWindow ==
    WindowComputed =>
        /\ last.daysRemaining \in 0..EXCHANGE_WINDOW_DAYS
        /\ last.daysRemaining = EXCHANGE_WINDOW_DAYS
              - daysSinceDelivery(orders[last.order_id].delivered_at, now)

(* C30: POST /api/razorpay/verify-payment marks an order paid only when   *)
(* the gateway order whose signature it verified is the order's own       *)
(* razorpay_order_id                                                      *)
C30_PaidOnlyForOwnGatewayOrder ==
    [][(last'.op = "verify_payment" /\ last'.updated) =>
          /\ orders'[last'.order].payment_status = "paid"
          /\ orders[last'.order].razorpay_order_id = last'.rzp]_vars

====
